---- MODULE Spec2Model ----
(***************************************************************************)
(* LR-QAOA QPU benchmarking: the preprocessing pipeline                    *)
(* (generate_json_data.py, generate_1d_chain_json.py), the incremental     *)
(* patch utility (add_originq_to_1d.py) and the dashboard's memoized       *)
(* loaders (dashboard/dashboard.py).                                       *)
(*                                                                         *)
(* Numbers.  A float is carried as an integer number of ten-thousandths    *)
(* (Unit = 1.0); a division rounds down.  A float that is not finite, and  *)
(* Python's None, are tagged records (Inf, NegInf, NaN, None), so that a   *)
(* comparison with them is decided the way Python decides it.              *)
(*                                                                         *)
(* Random numbers.  numpy's generator is not part of this repository.  It  *)
(* is carried as a counter-based generator, Mix(seed, n): what the model   *)
(* keeps of np.random.shuffle is that the elements found in the first      *)
(* `size` places after the i-th shuffle are a function of the seed, the    *)
(* array and i, and that another seed gives other elements.                *)
(***************************************************************************)
EXTENDS Integers, Sequences, FiniteSets, TLC

VARIABLES
    rawFC,       \* Data/<backend>/<nq>_FC.npy, for the pairs of ModelPairs
    rawHPC,      \* Data/LR_HPC_WMC_B.npy: nq -> ideal ratio; << >> when absent
    fcFile,      \* Data/fc_processed.json
    fcSummary,   \* Data/fc_summary.json
    raw1D,       \* Data/<backend>/100_1D.npy and Data/ibm_torino/100_1D_v1.npy
    raw5q,       \* Data/<backend>/5_1D.npy, Data/originq_wukong/5_1D_2.npy
    chainFile,   \* Data/1d_chain_processed.json
    lastOp,      \* the script that ran last on 1d_chain_processed.json
    patchExit,   \* how the last run of add_originq_to_1d.py ended
    patchStreak, \* successive successful runs of the patch utility
    loader,      \* the dashboard loader the session calls
    now,         \* the dashboard's clock, in seconds
    disk,        \* the loader's processed file: [exists, parses, mtime, version, content]
    cache,       \* st.cache_data's entry for the loader: NoEntry or [at, value]
    lastCall,    \* what the last call of the loader did: [read, value, ...]
    rawNL,       \* Data/<folder>/<file>.npy of the native-layout experiments
    nlFile,      \* Data/native_layout_processed.json
    G,           \* the networkx graph handed to wmaxcut_docplex
    mdl,         \* the docplex model it returns
    artifacts,   \* the three processed files compute_dataset_insights reads
    insights,    \* what compute_dataset_insights returned
    fcLoad,      \* what load_fc_results returned
    patchRun     \* a run of add_originq_to_1d.py between its read and its write

fcVars == <<rawFC, rawHPC, fcFile, fcSummary>>
chainVars == <<raw1D, raw5q, chainFile, lastOp, patchExit, patchStreak>>
dashVars == <<loader, now, disk, cache, lastCall>>
nlVars == <<rawNL, nlFile>>
cutVars == <<G, mdl>>
insVars == <<artifacts, insights, fcLoad>>
raceVars == <<patchRun>>
vars == <<rawFC, rawHPC, fcFile, fcSummary, raw1D, raw5q, chainFile, lastOp,
          patchExit, patchStreak, loader, now, disk, cache, lastCall,
          rawNL, nlFile, G, mdl, artifacts, insights, fcLoad, patchRun>>

\* what a program leaves alone: the variables of the other programs
otherThanFC == <<chainVars, dashVars, nlVars, cutVars, insVars, raceVars>>
otherThanChain == <<fcVars, dashVars, nlVars, cutVars, insVars, raceVars>>
otherThanDash == <<fcVars, chainVars, nlVars, cutVars, insVars, raceVars>>
otherThanNL == <<fcVars, chainVars, dashVars, cutVars, insVars, raceVars>>
otherThanCut == <<fcVars, chainVars, dashVars, nlVars, insVars, raceVars>>
otherThanIns == <<fcVars, chainVars, dashVars, nlVars, cutVars, raceVars>>
otherThanRace == <<fcVars, dashVars, nlVars, cutVars, insVars>>

-----------------------------------------------------------------------------
(* Floats *)

Unit == 10000

Num(v) == [kind |-> "num", v |-> v]
Inf == [kind |-> "inf"]
NegInf == [kind |-> "-inf"]
NaN == [kind |-> "nan"]
None == [kind |-> "none"]

IsNum(x) == x.kind = "num"

\* a / b on numpy floats: a zero divisor gives inf, -inf or nan (a warning, no
\* exception).  `scale` is the unit of the quotient.
FDiv(a, b, scale) ==
    IF b # 0 THEN Num((a * scale) \div b)
    ELSE IF a > 0 THEN Inf
    ELSE IF a < 0 THEN NegInf
    ELSE NaN

RECURSIVE SqrtBetween(_, _, _)
SqrtBetween(lo, hi, x) ==
    IF lo >= hi THEN lo
    ELSE LET mid == (lo + hi + 1) \div 2
         IN  IF mid * mid <= x THEN SqrtBetween(mid, hi, x)
             ELSE SqrtBetween(lo, mid - 1, x)

\* numpy's sqrt inside ndarray.std, rounded down to the unit
ISqrt(x) == SqrtBetween(0, 2 * Unit, x)

Range(s) == {s[i] : i \in 1..Len(s)}

RECURSIVE SumSeq(_)
SumSeq(s) == IF s = << >> THEN 0 ELSE Head(s) + SumSeq(Tail(s))

RECURSIVE MaxSeq(_)
MaxSeq(s) == IF Len(s) = 1 THEN s[1]
             ELSE LET m == MaxSeq(Tail(s)) IN IF s[1] >= m THEN s[1] ELSE m

\* faulty variant: the last position of the largest element
ArgMax_Last(s) == CHOOSE i \in 1..Len(s) :
                      /\ \A k \in 1..Len(s) : s[k] <= s[i]
                      /\ \A j \in (i + 1)..Len(s) : s[j] # s[i]

\* the first position of the largest element: np.argmax, list.index(max(..))
ArgMax(s) == CHOOSE i \in 1..Len(s) :
                 /\ s[i] = MaxSeq(s)
                 /\ \A j \in 1..(i - 1) : s[j] # s[i]

\* np.mean of a non-empty list
Mean(s) == SumSeq(s) \div Len(s)

\* round(r, 3): to the nearest thousandth, a tie to the even one
Round3(r) ==
    LET q == r \div 10
        m == r % 10
    IN  IF m < 5 THEN q * 10
        ELSE IF m > 5 THEN (q + 1) * 10
        ELSE IF q % 2 = 0 THEN q * 10 ELSE (q + 1) * 10

Digit == <<"0", "1", "2", "3", "4", "5", "6", "7", "8", "9">>

\* str(nq)
RECURSIVE Str(_)
Str(n) == IF n < 10 THEN Digit[n + 1] ELSE Str(n \div 10) \o Digit[(n % 10) + 1]

-----------------------------------------------------------------------------
(* The random generator and the bootstrap *)

RngMod == 1009

\* the n-th number a generator seeded with `seed` hands out
Mix(seed, n) ==
    ((seed * 7919) + (n * 4801) + (((n % 997) * (n % 997)) % 997) * 13) % RngMod

Min(a, b) == IF a <= b THEN a ELSE b
Max(a, b) == IF a >= b THEN a ELSE b

RECURSIVE CountAll(_)
CountAll(rows) == IF rows = << >> THEN 0 ELSE Head(rows)[2] + CountAll(Tail(rows))

\* rand_data after the loop `rand_data += int(c) * [v]`, kept as its rows
\* <<value, count>>; the sum of the first `need` elements after the i-th
\* shuffle: of each value, some number between what must and what can be there.
RECURSIVE PrefixSum(_, _, _, _, _)
PrefixSum(rows, need, seed, i, k) ==
    IF rows = << >> THEN 0
    ELSE LET v == Head(rows)[1]
             c == Head(rows)[2]
             rest == CountAll(Tail(rows))
             lo == Max(0, need - rest)
             hi == Min(c, need)
             take == lo + (Mix(seed, i * 8 + k) % (hi - lo + 1))
         IN  v * take + PrefixSum(Tail(rows), need - take, seed, i, k + 1)

\* np.mean(rand_data[:size]) after the i-th shuffle
ShuffledMean(rows, size, seed, i) ==
    LET len == Min(size, CountAll(rows))
    IN  PrefixSum(rows, len, seed, i, 0) \div len

\* the elements of `values` weighted by how often each is in `ms`, as
\* distances from `base`, squared or not
RECURSIVE WeightedSum(_, _, _, _)
WeightedSum(values, ms, base, square) ==
    IF values = {} THEN 0
    ELSE LET m == CHOOSE x \in values : TRUE
             cnt == Cardinality({i \in DOMAIN ms : ms[i] = m})
             d == m - base
         IN  cnt * (IF square THEN d * d ELSE d)
             + WeightedSum(values \ {m}, ms, base, square)

\* rand_mean, the n means of the loop, as [mean, std] of the array
\* (ndarray.mean, ndarray.std).  An array no longer than `size` is resampled
\* whole each time: every mean is the mean of the array.
Bootstrap(rows, size, n, seed) ==
    IF CountAll(rows) <= size
    THEN [mean |-> PrefixSum(rows, CountAll(rows), seed, 0, 0) \div CountAll(rows),
          std |-> 0]
    ELSE LET ms == [i \in 1..n |-> ShuffledMean(rows, size, seed, i - 1)]
             means == Range(ms)
             m0 == CHOOSE x \in means : \A y \in means : x <= y
             mean == m0 + (WeightedSum(means, ms, m0, FALSE) \div n)
             var == WeightedSum(means, ms, mean, TRUE) \div n
         IN  [mean |-> mean, std |-> ISqrt(var)]

-----------------------------------------------------------------------------
(* Student's t, 49 degrees of freedom: 1 - cdf(t) in millionths, for           *)
(* t = 0.00, 0.01, ... 6.00 (below a millionth beyond).                        *)

TSurvival == <<
    500000, 496031, 492062, 488094, 484128, 480163, 476200, 472239, 468282, 464327, 460376, 456429,
    452487, 448549, 444617, 440690, 436769, 432855, 428947, 425047, 421154, 417269, 413393, 409525,
    405666, 401816, 397977, 394147, 390328, 386520, 382723, 378938, 375164, 371403, 367655, 363919,
    360197, 356488, 352794, 349113, 345447, 341797, 338161, 334540, 330936, 327348, 323775, 320220,
    316682, 313160, 309657, 306171, 302703, 299253, 295821, 292409, 289015, 285641, 282286, 278951,
    275636, 272340, 269065, 265811, 262577, 259364, 256172, 253002, 249852, 246725, 243619, 240535,
    237473, 234433, 231415, 228420, 225448, 222498, 219571, 216667, 213786, 210928, 208094, 205282,
    202494, 199730, 196989, 194271, 191577, 188907, 186261, 183639, 181040, 178465, 175914, 173387,
    170884, 168405, 165950, 163519, 161112, 158728, 156369, 154034, 151722, 149435, 147171, 144931,
    142715, 140522, 138354, 136208, 134087, 131989, 129914, 127863, 125835, 123830, 121849, 119890,
    117955, 116042, 114152, 112285, 110440, 108618, 106819, 105041, 103286, 101553, 99842, 98152,
    96484, 94838, 93213, 91610, 90027, 88466, 86926, 85406, 83907, 82428, 80970, 79531,
    78113, 76715, 75336, 73977, 72637, 71317, 70015, 68733, 67469, 66224, 64997, 63788,
    62598, 61425, 60271, 59133, 58014, 56911, 55826, 54757, 53705, 52670, 51651, 50648,
    49661, 48691, 47736, 46796, 45872, 44963, 44068, 43189, 42325, 41474, 40639, 39817,
    39009, 38215, 37435, 36668, 35915, 35174, 34447, 33732, 33030, 32340, 31663, 30998,
    30345, 29703, 29073, 28455, 27848, 27252, 26667, 26093, 25530, 24977, 24434, 23902,
    23380, 22868, 22365, 21872, 21389, 20915, 20450, 19994, 19547, 19109, 18680, 18259,
    17846, 17442, 17045, 16657, 16276, 15904, 15538, 15181, 14830, 14487, 14150, 13821,
    13499, 13183, 12874, 12571, 12275, 11985, 11701, 11423, 11151, 10885, 10624, 10369,
    10120, 9876, 9637, 9404, 9176, 8952, 8734, 8521, 8312, 8108, 7908, 7713,
    7522, 7335, 7153, 6975, 6801, 6631, 6465, 6302, 6143, 5988, 5837, 5689,
    5544, 5403, 5265, 5131, 4999, 4871, 4746, 4623, 4504, 4387, 4273, 4162,
    4054, 3948, 3845, 3744, 3646, 3550, 3456, 3365, 3276, 3189, 3104, 3022,
    2941, 2863, 2786, 2711, 2638, 2567, 2498, 2431, 2365, 2301, 2238, 2177,
    2118, 2060, 2004, 1949, 1895, 1843, 1792, 1743, 1695, 1648, 1602, 1558,
    1514, 1472, 1431, 1391, 1352, 1314, 1277, 1241, 1206, 1172, 1139, 1107,
    1075, 1045, 1015, 986, 958, 930, 904, 878, 853, 828, 804, 781,
    758, 736, 715, 694, 674, 654, 635, 617, 599, 581, 564, 548,
    532, 516, 501, 486, 472, 458, 444, 431, 418, 406, 393, 382,
    370, 359, 348, 338, 328, 318, 308, 299, 290, 281, 273, 265,
    257, 249, 241, 234, 227, 220, 213, 207, 200, 194, 188, 182,
    177, 171, 166, 161, 156, 151, 146, 142, 138, 133, 129, 125,
    121, 117, 114, 110, 107, 103, 100, 97, 94, 91, 88, 85,
    83, 80, 78, 75, 73, 70, 68, 66, 64, 62, 60, 58,
    56, 54, 53, 51, 49, 48, 46, 45, 43, 42, 41, 39,
    38, 37, 36, 34, 33, 32, 31, 30, 29, 28, 27, 26,
    26, 25, 24, 23, 22, 22, 21, 20, 20, 19, 18, 18,
    17, 17, 16, 16, 15, 15, 14, 14, 13, 13, 12, 12,
    11, 11, 11, 10, 10, 10, 9, 9, 9, 8, 8, 8,
    8, 7, 7, 7, 7, 6, 6, 6, 6, 6, 5, 5,
    5, 5, 5, 5, 4, 4, 4, 4, 4, 4, 4, 3,
    3, 3, 3, 3, 3, 3, 3, 3, 3, 2, 2, 2,
    2, 2, 2, 2, 2, 2, 2, 2, 2, 2, 2, 2,
    1, 1, 1, 1, 1, 1, 1, 1, 1, 1, 1, 1,
    1, 1, 1, 1, 1, 1, 1, 1, 1, 1, 1, 1,
    1, 1, 1, 1, 1, 1, 1, 0, 0, 0, 0, 0,
    0, 0, 0, 0, 0, 0, 0, 0, 0, 0, 0, 0,
    0, 0, 0, 0, 0, 0, 0, 0, 0, 0, 0, 0,
    0, 0, 0, 0, 0, 0, 0, 0, 0, 0, 0, 0,
    0
    >>

\* float(1 - stats.t.cdf(t_score, df=n_rand-1)), t_score in hundredths
PValue(t) ==
    IF t.kind = "nan" THEN NaN
    ELSE IF t.kind = "inf" THEN Num(0)
    ELSE IF t.kind = "-inf" THEN Num(1000000)
    ELSE IF t.v >= Len(TSurvival) THEN Num(0)
    ELSE IF t.v >= 0 THEN Num(TSurvival[t.v + 1])
    ELSE IF -t.v >= Len(TSurvival) THEN Num(1000000)
    ELSE Num(1000000 - TSurvival[(-t.v) + 1])

\* 0.001, in millionths
P_THRESHOLD == 1000

\* faulty variant: the threshold written as 0.01
IsSignificant_Loose(p) == IsNum(p) /\ p.v < 10 * P_THRESHOLD

\* p_value < 0.001; a comparison with nan is False
IsSignificant(p) == IsNum(p) /\ p.v < P_THRESHOLD

-----------------------------------------------------------------------------
(* generate_json_data.py: process_fc_experiments *)

backends == <<"aqt_ibexq1", "ibm_brisbane", "ibm_fez", "ibm_boston",
              "H1-1E", "qasm_simulator", "H2-1E", "H2-1",
              "ionq_forte", "ionq_aria_2", "ionq_harmony", "ibm_torino",
              "ionq_forte_enterprise", "ibm_marrakesh", "iqm_garnet", "iqm_emerald">>

nqs ==
    "ibm_boston" :> <<5,7,10,12,15,17,18,20,22,25,27,30,31,32,33,34,35>> @@
    "ionq_forte" :> <<10,13,15,17,20,21,23,25,27,30,35>> @@
    "ibm_brisbane" :> <<5,7,10,12,14,15,17,20>> @@
    "ibm_fez" :> <<5,7,10,12,15,17,18,20,22,25>> @@
    "ibm_torino" :> <<5,7,10,12,15,17,20,30,40>> @@
    "ionq_harmony" :> <<5,7,10>> @@
    "iqm_garnet" :> <<5,7,9,10,12,13,14,15>> @@
    "H1-1E" :> <<5,7,10,13,15,17,20>> @@
    "H2-1E" :> <<20,25,30>> @@
    "qasm_simulator" :> <<5,7,10,11,12,13,14,15,20,25>> @@
    "ionq_aria_2" :> <<5,10,13,15,17,20,23,25>> @@
    "H2-1" :> <<40,50,56>> @@
    "ionq_forte_enterprise" :> <<5,7,10,13,15,17,20,23,25,27,28,29,30>> @@
    "ibm_marrakesh" :> <<10,15,17,20>> @@
    "iqm_emerald" :> <<5,7,10,12,15>> @@
    "aqt_ibexq1" :> <<5,6,7,10,12>>

Missing == [kind |-> "missing"]
Skip == [kind |-> "skip"]
NoFile == [kind |-> "nofile"]

\* np.load(data_dir / backend_name / f"{nq}_FC.npy"): the record, or Missing
\* (the load raises)
LoadFC(raw, b, nq) == IF <<b, nq>> \in DOMAIN raw THEN raw[<<b, nq>>] ELSE Missing

SEED == 1
N_RAND == 50

\* faulty variant: no seed is set, and the generator goes on from the state
\* an earlier run left it in
RandomBaseline_Unseeded(rec) ==
    Bootstrap(rec.random, rec.shots, N_RAND, IF fcFile = NoFile THEN SEED ELSE SEED + 2)

\* lines 63-80: shots, rand_data, the 50 resamples; y1 = mean, y2 = 3 std
RandomBaseline(rec) == Bootstrap(rec.random, rec.shots, N_RAND, SEED)

\* [postprocessing[deltas[0]][p][i]["r"] for i in range(sections)], at ps[j]
AtDepth(rec, j) == [i \in 1..rec.sections |-> rec.post[i][j]]

\* [max([... for i in range(sections)]) for p in ps]
MaxPerDepth(rec) == [j \in 1..Len(rec.ps) |-> MaxSeq(AtDepth(rec, j))]

\* lines 98-104: the loop over the sections, from section i on
RECURSIVE BestSection(_, _, _, _)
BestSection(rec, i, best_yp, yp) ==
    IF i > rec.sections THEN yp
    ELSE LET ypi == rec.post[i]
         IN  IF MaxSeq(ypi) > best_yp
             THEN BestSection(rec, i + 1, MaxSeq(ypi), ypi)
             ELSE BestSection(rec, i + 1, best_yp, yp)

\* what makes the body of the try raise: no file, no "random" block, no depth,
\* no section, or fewer sections in postprocessing than `sections` says
RaisesFC(rec) ==
    \/ rec.kind = "missing"
    \/ ~rec.hasRandom
    \/ Len(rec.ps) = 0
    \/ rec.sections = 0
    \/ rec.sections > Len(rec.post)

\* faulty variant: the ratio is rescaled from the bootstrap mean
EffectiveRatio_FromMean(r_max_nq, y1, y2) == FDiv(r_max_nq - y1, Unit - y1, Unit)

\* line 95 (and 160): r_eff = (r_max_nq - (y1+y2)) / (1 - (y1+y2))
EffectiveRatio(r_max_nq, y1, y2) == FDiv(r_max_nq - (y1 + y2), Unit - (y1 + y2), Unit)

\* lines 63-126: the entry of a record whose processing does not raise
FCCompute(rec) ==
    LET boot == RandomBaseline(rec)
        y1 == boot.mean
        y2 == 3 * boot.std
        r_max_nq == MaxSeq(MaxPerDepth(rec))
        p_eff == rec.ps[ArgMax(MaxPerDepth(rec))]
        t_score == FDiv(r_max_nq - y1, boot.std, 100)
        p_value == PValue(t_score)
    IN  [kind |-> "entry",
         r_eff |-> EffectiveRatio(r_max_nq, y1, y2),
         r_max_qpu |-> r_max_nq,
         p_eff |-> Num(p_eff),
         random_baseline |->
             [mean |-> y1, std_3sigma |-> y2, threshold |-> y1 + y2],
         statistics |->
             [t_score |-> t_score, p_value |-> p_value,
              significant |-> IsSignificant(p_value)],
         shots |-> rec.shots,
         r_vs_p |-> [p_values |-> rec.ps,
                     r_values |-> BestSection(rec, 1, 0, << >>)]]

\* faulty variant: the entry is stored only when it is significant
FCEntry_OnlySignificant(rec) ==
    IF RaisesFC(rec) THEN Skip
    ELSE IF ~FCCompute(rec).statistics.significant THEN Skip
    ELSE FCCompute(rec)

\* lines 59-132: the entry of one (backend, nq), or Skip when the body raises
\* (the except clause prints and continues)
FCEntry(rec) == IF RaisesFC(rec) THEN Skip ELSE FCCompute(rec)

\* lines 141-184: the entry stored under qasm_simulator for an nq of res_hpc
HPCEntry(rec, r_max_nq) ==
    IF rec.kind = "missing" \/ ~rec.hasRandom THEN Skip
    ELSE LET boot == Bootstrap(rec.random, rec.shots, N_RAND, SEED)
             y1 == boot.mean
             y2 == 3 * boot.std
         IN  [kind |-> "entry",
              r_eff |-> EffectiveRatio(r_max_nq, y1, y2),
              r_max_qpu |-> r_max_nq,
              p_eff |-> None,
              random_baseline |->
                  [mean |-> y1, std_3sigma |-> y2, threshold |-> y1 + y2],
              statistics |->
                  [t_score |-> None, p_value |-> None, significant |-> TRUE],
              shots |-> rec.shots,
              source |-> "HPC_simulation"]

HPC_NQS == <<30, 40>>

\* faulty variant: the first failure of a backend ends its loop
StoredNq_StopAtFailure(raw, b) ==
    {nq \in Range(nqs[b]) :
        \A k \in 1..Len(nqs[b]) :
            nqs[b][k] <= nq => FCEntry(LoadFC(raw, b, nqs[b][k])) # Skip}

\* the nq of a backend whose entry is stored by the loop of lines 52-132
StoredNq(raw, b) == {nq \in Range(nqs[b]) : FCEntry(LoadFC(raw, b, nq)) # Skip}

\* the nq of [30, 40] whose HPC entry is stored by lines 135-184
StoredHPC(raw, hpc) ==
    {nq \in Range(HPC_NQS) :
        /\ nq \in DOMAIN hpc
        /\ HPCEntry(LoadFC(raw, "ibm_torino", nq), hpc[nq]) # Skip}

NqOf(set, key) == CHOOSE nq \in set : Str(nq) = key

\* fc_results when the function returns
FCResults(raw, hpc) ==
    [b \in Range(backends) |->
        LET main == StoredNq(raw, b)
            sim == IF b = "qasm_simulator" THEN StoredHPC(raw, hpc) ELSE {}
        IN  [key \in {Str(nq) : nq \in main \cup sim} |->
                IF \E nq \in sim : Str(nq) = key
                THEN LET nq == NqOf(sim, key)
                     IN  HPCEntry(LoadFC(raw, "ibm_torino", nq), hpc[nq])
                ELSE FCEntry(LoadFC(raw, b, NqOf(main, key)))]]

RECURSIVE TotalDatapoints(_, _)
TotalDatapoints(results, bs) ==
    IF bs = << >> THEN 0
    ELSE Cardinality(DOMAIN results[Head(bs)]) + TotalDatapoints(results, Tail(bs))

\* lines 194-199
FCSummary(results) ==
    [experiment_type |-> "fully_connected",
     backends |-> backends,
     total_datapoints |-> TotalDatapoints(results, backends)]

\* one run of process_fc_experiments: both files are rewritten
process_fc_experiments ==
    /\ fcFile' = FCResults(rawFC, rawHPC)
    /\ fcSummary' = FCSummary(FCResults(rawFC, rawHPC))
    /\ UNCHANGED <<rawFC, rawHPC>>
    /\ UNCHANGED otherThanFC

-----------------------------------------------------------------------------
(* The raw fully-connected records the model draws from *)

TightRandom == <<<<5000, 2>>, <<5200, 2>>>>
FlatRandom == <<<<1000, 4>>>>

FCRecord(ps, sections, post, random) ==
    [kind |-> "record", ps |-> ps, sections |-> sections, post |-> post,
     hasRandom |-> TRUE, random |-> random, shots |-> 2]

\* the records a file may hold:
\*   r_max ten bootstrap standard deviations above the bootstrap mean;
\*   r_max equal to the bootstrap mean;
\*   r_max about three standard deviations above the mean;
\*   two sections, the largest ratio in both, at depth 2 in section 0 and at
\*   depth 1 in section 1;
\*   every ratio zero;
\*   a random sample uniformly equal to 0.1;
\*   `sections` says 2 and postprocessing holds section 0 only;
\*   no "random" key
FCRecords ==
    {Missing,
     FCRecord(<<1, 2, 3>>, 1, <<<<2000, 5000, 5972>>>>, TightRandom),
     FCRecord(<<1>>, 1, <<<<5112>>>>, TightRandom),
     FCRecord(<<1, 2>>, 1, <<<<5000, 5362>>>>, TightRandom),
     FCRecord(<<1, 2>>, 2, <<<<3000, 9000>>, <<9000, 7000>>>>, TightRandom),
     FCRecord(<<1, 2>>, 1, <<<<0, 0>>>>, TightRandom),
     FCRecord(<<1, 2, 3>>, 1, <<<<2000, 5000, 8000>>>>, FlatRandom),
     FCRecord(<<1, 2>>, 2, <<<<4000, 6000>>>>, TightRandom),
     [FCRecord(<<1, 2>>, 1, <<<<4000, 6000>>>>, << >>) EXCEPT !.hasRandom = FALSE]}

ModelPairs == {<<"ibm_brisbane", 5>>, <<"ibm_torino", 30>>}

\* res_hpc: nq -> res_hpc[nq][0]["objective"]["r"]; << >> when the load fails
HPCFiles == {<< >>, (30 :> 9500), (30 :> 9500) @@ (40 :> 9000)}

InitFCStore ==
    /\ rawFC \in [ModelPairs -> FCRecords]
    /\ rawHPC \in HPCFiles
    /\ fcFile = NoFile
    /\ fcSummary = NoFile

-----------------------------------------------------------------------------
(* 1d_chain_processed.json as a JSON object: a function from its keys *)

EmptyObject == [k \in {} |-> Missing]

\* d[k] = v
Put(d, k, v) == [x \in DOMAIN d \cup {k} |-> IF x = k THEN v ELSE d[x]]

\* d.pop(k)
Pop(d, k) == [x \in DOMAIN d \ {k} |-> d[x]]

NoRandom == [kind |-> "none"]
\* results["random"] = {"results": array of [label, value, count]}
RandomRows(rows) == [kind |-> "results", rows |-> rows]
\* results["random"] = {"r": value}
RandomProp(r) == [kind |-> "prop", r |-> r]

LoadChain(raw, b, file) ==
    IF <<b, file>> \in DOMAIN raw THEN raw[<<b, file>>] ELSE Missing

-----------------------------------------------------------------------------
(* generate_json_data.py: process_1d_chain_experiments *)

names == <<"ibm_boston", "ibm_marrakesh", "ibm_fez", "ibm_torino",
           "ibm_brisbane", "ibm_sherbrooke", "ibm_kyiv", "ibm_nazca",
           "ibm_kyoto", "ibm_osaka", "ibm_brussels", "ibm_strasbourg">>

NQ_100 == 100
N_RAND_1D == 10000
SAMPLE_1D == 1000

\* what makes the body of a 100-qubit try raise: no file, no "postprocessing"
\* key, or no depth (max of an empty list)
Raises100(rec) ==
    \/ rec.kind = "missing"
    \/ ~rec.hasPost
    \/ Len(rec.ps) = 0

\* lines 228-238, 269-279: ps = list(postprocessing[delta].keys()), the ratios
\* of section kk = 0
Entry100(rec) ==
    [qubits |-> NQ_100,
     p_values |-> rec.ps,
     r_values |-> rec.rs,
     max_r |-> MaxSeq(rec.rs),
     optimal_p |-> rec.ps[ArgMax(rec.rs)]]

\* rand_data = res_random["results"][:,1]: one element per row, not weighted
ValuesColumn(rows) == [i \in 1..Len(rows) |-> <<rows[i][1], 1>>]

\* lines 241-258
BrisbaneBaseline(rec) ==
    LET boot == Bootstrap(ValuesColumn(rec.random.rows), SAMPLE_1D, N_RAND_1D, SEED)
        y1 == boot.mean
        y2 == 3 * boot.std
    IN  [mean |-> y1, std_3sigma |-> y2, lower |-> y1 - y2, upper |-> y1 + y2]

\* chain_results after the loop of lines 225-264
ChainLoop(raw) ==
    LET loaded == {b \in Range(names) : ~Raises100(LoadChain(raw, b, "100_1D"))}
        bris == LoadChain(raw, "ibm_brisbane", "100_1D")
        base == [b \in loaded |-> Entry100(LoadChain(raw, b, "100_1D"))]
    IN  IF "ibm_brisbane" \in loaded /\ bris.random.kind = "results"
        THEN Put(base, "random_baseline", BrisbaneBaseline(bris))
        ELSE base

\* lines 267-282: the v1 file of ibm_torino; any failure is passed over
AddTorinoV1(results, raw) ==
    LET rec == LoadChain(raw, "ibm_torino", "100_1D_v1")
    IN  IF Raises100(rec) THEN results
        ELSE Put(results, "ibm_torino-v1", Entry100(rec))

\* faulty variant: the base entry keeps its key
RenameTorino_Kept(results) == results

\* lines 284-285
RenameTorino(results) ==
    IF "ibm_torino" \in DOMAIN results
    THEN Put(Pop(results, "ibm_torino"), "ibm_torino-v0", results["ibm_torino"])
    ELSE results

\* chain_results when process_1d_chain_experiments returns
Chain1DResults(raw) == RenameTorino(AddTorinoV1(ChainLoop(raw), raw))

-----------------------------------------------------------------------------
(* generate_1d_chain_json.py: generate_1d_chain_json *)

backends_5q == <<"qasm_simulator", "iqm_emerald", "iqm_garnet", "ibm_fez",
                 "ibm_marrakesh", "ibm_brisbane", "rigetti_ankaa_2", "rigetti_ankaa_3">>

backends_100q == <<"ibm_marrakesh", "ibm_brisbane", "ibm_sherbrooke", "ibm_kyiv",
                   "ibm_nazca", "ibm_kyoto", "ibm_osaka", "ibm_fez", "ibm_brussels",
                   "ibm_strasbourg">>

NQ_5 == 5
\* 0.667 and 0.50
DEFAULT_RANDOM_5Q == 6670
DEFAULT_RANDOM_100Q == 5000

NoSection == [kind |-> "none"]
Section(r) == [kind |-> "sec", r |-> r]

\* the loop `for sec_i in ...keys(): if np.mean(res_i) > best_mean: ...`, from
\* section i on
RECURSIVE BestMean(_, _, _, _)
BestMean(post, i, best_mean, best_sec) ==
    IF i > Len(post) THEN best_sec
    ELSE IF Mean(post[i]) > best_mean
         THEN BestMean(post, i + 1, Mean(post[i]), Section(post[i]))
         ELSE BestMean(post, i + 1, best_mean, best_sec)

RoundAll(s) == [i \in 1..Len(s) |-> Round3(s[i])]

\* lines 46-53, 71-78, 94-101 once best_sec is a list
Entry5q(ps, best_sec, random_r) ==
    [qubits |-> NQ_5,
     p_values |-> ps,
     r_values |-> RoundAll(best_sec),
     max_r |-> Round3(MaxSeq(best_sec)),
     optimal_p |-> ps[ArgMax(best_sec)],
     random_r |-> Round3(random_r)]

\* np.load of the backend's 5-qubit file; iqm_emerald is loaded twice and the
\* AWS file is the one kept
Load5q(raw, b) ==
    IF b = "iqm_emerald"
    THEN IF LoadChain(raw, b, "5_1D") = Missing THEN Missing
         ELSE LoadChain(raw, b, "5_1D_aws")
    ELSE LoadChain(raw, b, "5_1D")

\* lines 24-57: one backend of backends_5q.  st = [best_sec, data]: the local
\* best_sec and data["5q"].  A raise leaves data as it is.
Gen5qStep(st, b, raw) ==
    LET rec == Load5q(raw, b)
    IN  IF rec.kind = "missing" THEN st
        ELSE IF Len(rec.ps) = 0 THEN [st EXCEPT !.best_sec = NoSection]
        ELSE LET sec == BestMean(rec.post, 1, 0, NoSection)
                 random_r == IF rec.random.kind = "prop" THEN rec.random.r
                             ELSE DEFAULT_RANDOM_5Q
             IN  IF sec = NoSection THEN [st EXCEPT !.best_sec = NoSection]
                 ELSE [best_sec |-> sec,
                       data |-> Put(st.data, b, Entry5q(rec.ps, sec.r, random_r))]

\* lines 60-81, 83-104: originq_wukong and iqm_sirius.  best_sec is not reset:
\* it is what the code before left in it.
Gen5qSpecial(st, b, file, raw) ==
    LET rec == LoadChain(raw, b, file)
    IN  IF rec.kind = "missing" THEN st
        ELSE IF Len(rec.ps) = 0 THEN st
        ELSE LET sec == BestMean(rec.post, 1, 0, st.best_sec)
             IN  IF sec = NoSection THEN st
                 ELSE IF ArgMax(sec.r) > Len(rec.ps) THEN [st EXCEPT !.best_sec = sec]
                 ELSE [best_sec |-> sec,
                       data |-> Put(st.data, b,
                                    Entry5q(rec.ps, sec.r, DEFAULT_RANDOM_5Q))]

RECURSIVE Gen5qLoop(_, _, _)
Gen5qLoop(st, bs, raw) ==
    IF bs = << >> THEN st
    ELSE Gen5qLoop(Gen5qStep(st, Head(bs), raw), Tail(bs), raw)

\* data["5q"] when the 5-qubit part is done
Gen5q(raw) ==
    LET st0 == [best_sec |-> NoSection, data |-> EmptyObject]
        st1 == Gen5qLoop(st0, backends_5q, raw)
        st2 == Gen5qSpecial(st1, "originq_wukong", "5_1D_2", raw)
        st3 == Gen5qSpecial(st2, "iqm_sirius", "5_1D_Single", raw)
    IN  st3.data

\* lines 118-136 and the four blocks after: one 100-qubit entry
GenEntry100(rec, random_r) ==
    [qubits |-> NQ_100,
     p_values |-> rec.ps,
     r_values |-> RoundAll(rec.rs),
     max_r |-> Round3(MaxSeq(rec.rs)),
     optimal_p |-> rec.ps[ArgMax(rec.rs)],
     random_r |-> Round3(random_r)]

\* results.get("random", {}).get(prop, 0.50), for ibm_brisbane only
GenRandom100(b, rec) ==
    IF b = "ibm_brisbane" /\ rec.random.kind = "prop" THEN rec.random.r
    ELSE DEFAULT_RANDOM_100Q

\* data["100q"] when the 100-qubit part is done
Gen100q(raw) ==
    LET loaded == {b \in Range(backends_100q) \cup {"ibm_boston"} :
                      ~Raises100(LoadChain(raw, b, "100_1D"))}
        loop == [b \in loaded |->
                    LET rec == LoadChain(raw, b, "100_1D")
                    IN  GenEntry100(rec, GenRandom100(b, rec))]
        v1 == LoadChain(raw, "ibm_torino", "100_1D_v1")
        v0 == LoadChain(raw, "ibm_torino", "100_1D")
        with1 == IF Raises100(v1) THEN loop
                 ELSE Put(loop, "ibm_torino-v1", GenEntry100(v1, DEFAULT_RANDOM_100Q))
    IN  IF Raises100(v0) THEN with1
        ELSE Put(with1, "ibm_torino-v0", GenEntry100(v0, DEFAULT_RANDOM_100Q))

\* data when generate_1d_chain_json saves it
GeneratorOutput(raw5, raw100) == ("5q" :> Gen5q(raw5)) @@ ("100q" :> Gen100q(raw100))

-----------------------------------------------------------------------------
(* add_originq_to_1d.py *)

N_RAND_PATCH == 100
SAMPLE_PATCH == 1000

Raise == [kind |-> "raise"]

\* lines 39-51: random_r, with the generator in the state `seed` (the script
\* never seeds it); None without a "random" key
PatchRandom(rec, seed) ==
    IF rec.random.kind = "none" THEN None
    ELSE Num(Bootstrap(rec.random.rows, SAMPLE_PATCH, N_RAND_PATCH, seed).mean)

\* what makes lines 22-63 raise: no file, no depth (ps[0]), a "random" block
\* without "results", or best_sec still None at line 57
RaisesPatch(rec) ==
    \/ rec.kind = "missing"
    \/ Len(rec.ps) = 0
    \/ rec.random.kind = "prop"
    \/ BestMean(rec.post, 1, 0, NoSection) = NoSection

\* lines 22-63: originq_entry, or Raise
PatchCompute(rec, seed) ==
    IF RaisesPatch(rec) THEN Raise
    ELSE LET best_sec == BestMean(rec.post, 1, 0, NoSection).r
             random_r == PatchRandom(rec, seed)
             entry == [qubits |-> NQ_5,
                       p_values |-> rec.ps,
                       r_values |-> best_sec,
                       max_r |-> MaxSeq(best_sec),
                       optimal_p |-> rec.ps[ArgMax(best_sec)]]
         IN  IF random_r = None THEN entry
             ELSE [qubits |-> entry.qubits,
                   p_values |-> entry.p_values,
                   r_values |-> entry.r_values,
                   max_r |-> entry.max_r,
                   optimal_p |-> entry.optimal_p,
                   random_r |-> random_r.v]

\* faulty variant: only the new entry is dumped
PatchWrite_EntryOnly(processed_data, entry) == ("originq_wukong" :> entry)

\* faulty variant: the new ratios are appended to the entry already there
PatchWrite_Append(processed_data, entry) ==
    IF "originq_wukong" \in DOMAIN processed_data
    THEN Put(processed_data, "originq_wukong",
             [entry EXCEPT !.r_values =
                  processed_data["originq_wukong"].r_values \o entry.r_values])
    ELSE Put(processed_data, "originq_wukong", entry)

\* faulty variant: in a file with the group "5q" the entry goes into the group
PatchWrite_IntoGroup(processed_data, entry) ==
    IF "5q" \in DOMAIN processed_data
    THEN Put(processed_data, "5q", Put(processed_data["5q"], "originq_wukong", entry))
    ELSE Put(processed_data, "originq_wukong", entry)

\* line 66 and the dump of lines 75-76
PatchWrite(processed_data, entry) == Put(processed_data, "originq_wukong", entry)

\* faulty variant: a failure is caught and the run goes on to its end
PatchExit_Caught(result) == "ok"

\* the script has no try: an exception ends it
PatchExit(result) == IF result = Raise THEN "uncaught" ELSE "ok"

\* faulty variant: the file is opened for writing before the entry is built,
\* and a run that fails leaves it truncated
PatchFile_OpenedFirst(file, result) ==
    IF result = Raise THEN NoFile ELSE PatchWrite(file, result)

\* the file after the run: written only by a run that reached line 75
PatchFile(file, result) ==
    IF result = Raise THEN file ELSE PatchWrite(file, result)

-----------------------------------------------------------------------------
(* The runs of the three scripts that write 1d_chain_processed.json *)

MaxStreak == 2
MaxSeed == 1

\* faulty variant: the results are merged into the file as it is
process_1d_chain_experiments_Update ==
    /\ chainFile' = IF chainFile = NoFile THEN Chain1DResults(raw1D)
                    ELSE Chain1DResults(raw1D) @@ chainFile
    /\ lastOp' = "pipeline"
    /\ patchStreak' = 0
    /\ UNCHANGED <<raw1D, raw5q, patchExit>>
    /\ UNCHANGED otherThanChain

\* chain_results starts empty and is dumped over the file (lines 223, 287-290)
process_1d_chain_experiments ==
    /\ chainFile' = Chain1DResults(raw1D)
    /\ lastOp' = "pipeline"
    /\ patchStreak' = 0
    /\ UNCHANGED <<raw1D, raw5q, patchExit>>
    /\ UNCHANGED otherThanChain

generate_1d_chain_json ==
    /\ chainFile' = GeneratorOutput(raw5q, raw1D)
    /\ lastOp' = "generator"
    /\ patchStreak' = 0
    /\ UNCHANGED <<raw1D, raw5q, patchExit>>
    /\ UNCHANGED otherThanChain

\* one run of add_originq_to_1d.py; line 13 raises when the file is not there
add_originq_to_1d ==
    /\ patchStreak < MaxStreak
    /\ \E seed \in 0..MaxSeed :
          LET result == IF chainFile = NoFile THEN Raise
                        ELSE PatchCompute(
                                 LoadChain(raw5q, "originq_wukong", "5_1D_2"), seed)
          IN  /\ patchExit' = PatchExit(result)
              /\ chainFile' = PatchFile(chainFile, result)
              /\ patchStreak' = IF result = Raise THEN 0 ELSE patchStreak + 1
    /\ lastOp' = "patch"
    /\ UNCHANGED <<raw1D, raw5q>>
    /\ UNCHANGED otherThanChain

-----------------------------------------------------------------------------
(* The raw 1D-chain records the model draws from *)

Record5q(ps, post, random) ==
    [kind |-> "record", ps |-> ps, post |-> post, random |-> random]

\* the records originq_wukong/5_1D_2.npy may hold:
\*   three sections whose mean ratios are about 0.3, 0.7 and 0.5;
\*   one section, every ratio zero;
\*   a random block of 1200 weighted samples, more than the 1000 of a resample;
\*   a random block of 4 weighted samples;
\*   a random block that holds the precomputed property only;
\*   no depth
OriginqRecords ==
    {Missing,
     Record5q(<<1, 2, 3>>,
              <<<<2000, 3000, 4000>>, <<6000, 8000, 8004>>, <<5000, 5000, 5000>>>>,
              NoRandom),
     Record5q(<<1, 2, 3>>, <<<<0, 0, 0>>>>, NoRandom),
     Record5q(<<1, 2>>, <<<<6000, 8000>>>>, RandomRows(<<<<6500, 600>>, <<6800, 600>>>>)),
     Record5q(<<1, 2>>, <<<<6000, 8000>>>>, RandomRows(<<<<6500, 2>>, <<6800, 2>>>>)),
     Record5q(<<1, 2>>, <<<<6000, 8000>>>>, RandomProp(6664)),
     Record5q(<< >>, << >>, NoRandom)}

Record100(ps, rs, random) ==
    [kind |-> "record", hasPost |-> TRUE, ps |-> ps, rs |-> rs, random |-> random]

InitChainStore ==
    /\ \E o \in OriginqRecords,
          s \in {Missing,
                 Record5q(<<1, 2, 3>>, <<<<9000, 9500, 9996>>>>, RandomProp(6664))} :
          raw5q = (<<"originq_wukong", "5_1D_2">> :> o) @@
                  (<<"qasm_simulator", "5_1D">> :> s)
    /\ \E t0 \in {Missing, Record100(<<3, 5>>, <<4000, 6000>>, NoRandom)},
          t1 \in {Missing,
                  Record100(<<3, 5, 7>>, <<5000, 7000, 6500>>, NoRandom),
                  [Record100(<< >>, << >>, NoRandom) EXCEPT !.hasPost = FALSE]},
          b \in {Missing,
                 Record100(<<3, 5>>, <<3000, 3500>>,
                           RandomRows(<<<<4900, 7>>, <<5100, 9>>>>))} :
          raw1D = (<<"ibm_torino", "100_1D">> :> t0) @@
                  (<<"ibm_torino", "100_1D_v1">> :> t1) @@
                  (<<"ibm_brisbane", "100_1D">> :> b)
    /\ chainFile = NoFile
    /\ lastOp = "none"
    /\ patchExit = "none"
    /\ patchStreak = 0

-----------------------------------------------------------------------------
(* add_originq_to_1d.py beside another writer of 1d_chain_processed.json *)

\* no run of the patch utility is between its read and its write
NoRun == [pc |-> "none"]

\* lines 13-14: the file is loaded into processed_data; nothing is locked.
\* open raises when the file is not there.
patch_read ==
    /\ patchRun.pc # "read"
    /\ IF chainFile = NoFile
       THEN patchRun' = NoRun /\ patchExit' = "uncaught" /\ lastOp' = "patch"
       ELSE /\ patchRun' = [pc |-> "read", processed_data |-> chainFile]
            /\ UNCHANGED <<patchExit, lastOp>>
    /\ UNCHANGED <<raw1D, raw5q, chainFile, patchStreak>>
    /\ UNCHANGED otherThanRace

\* faulty variant: the entry is put into the file as it is on disk
PatchDump_Reread(processed_data, on_disk, entry) == PatchWrite(on_disk, entry)

\* lines 75-76: what is dumped is processed_data, whatever the file holds by now
PatchDump(processed_data, on_disk, entry) == PatchWrite(processed_data, entry)

\* lines 22-76: the entry is computed and processed_data dumped over the
\* file; the run keeps what it replaced and who had written it
patch_write ==
    /\ patchRun.pc = "read"
    /\ \E seed \in 0..MaxSeed :
          LET result == PatchCompute(LoadChain(raw5q, "originq_wukong", "5_1D_2"), seed)
          IN  /\ patchExit' = PatchExit(result)
              /\ chainFile' = IF result = Raise THEN chainFile
                              ELSE PatchDump(patchRun.processed_data, chainFile, result)
              /\ patchRun' = [pc |-> IF result = Raise THEN "failed" ELSE "done",
                              processed_data |-> patchRun.processed_data,
                              replaced |-> chainFile,
                              writer |-> lastOp]
    /\ lastOp' = "patch"
    /\ patchStreak' = 0
    /\ UNCHANGED <<raw1D, raw5q>>
    /\ UNCHANGED otherThanRace

-----------------------------------------------------------------------------
(* dashboard/dashboard.py: the three loaders under st.cache_data *)

Loaders == {"load_1d_chain_results", "load_nl_results", "load_fc_results"}

TTL_1D == 600
TTL_NL == 600
TTL_FC == 3600

\* faulty variant: every loader cached for ten minutes
Ttl_AllTenMinutes(l) == TTL_1D

\* the ttl of the loader's decorator
Ttl(l) ==
    IF l = "load_1d_chain_results" THEN TTL_1D
    ELSE IF l = "load_nl_results" THEN TTL_NL
    ELSE TTL_FC

NoEntry == [kind |-> "noentry"]
NoCall == [kind |-> "nocall"]
NoStamp == -1

\* what the loader returns when its try raises, with what it shows on the
\* page: load_1d_chain_results and load_nl_results call st.error;
\* load_fc_results appends to debug_info, one text for FileNotFoundError and
\* another for any other exception, and calls no st function
LoaderDefault(l, d) ==
    IF l = "load_1d_chain_results"
    THEN [ok |-> FALSE, data |-> ("5q" :> EmptyObject) @@ ("100q" :> EmptyObject),
          shown |-> "error", debug_info |-> "none"]
    ELSE IF l = "load_nl_results"
    THEN [ok |-> FALSE, data |-> EmptyObject, shown |-> "error", debug_info |-> "none"]
    ELSE [ok |-> FALSE, data |-> EmptyObject, shown |-> "none",
          debug_info |-> IF d.exists THEN "ERR Error loading JSON"
                         ELSE "ERR JSON file not found"]

\* the body of the loader: the file is read, and its content returned; a
\* missing file, and one json.load rejects, raise inside the try and the
\* default is returned. The two loaders that check the loaded data warn when
\* it is empty. file_mtime is a local of the body that nothing reads.
LoaderBody(l, d) ==
    IF d.exists /\ d.parses
    THEN [ok |-> TRUE, data |-> d.content,
          shown |-> IF l # "load_fc_results" /\ d.content = EmptyObject
                    THEN "warning" ELSE "none",
          debug_info |-> IF l = "load_fc_results" THEN "OK Loaded JSON data" ELSE "none"]
    ELSE LoaderDefault(l, d)

\* the key of the memoized call: the function has no parameter, so every call
\* has the same key, whatever the file's modification time
CacheKey(l, d) == l

TickSeconds == 300
MaxClock == 4200
MaxVersion == 3

\* st.cache_data: the entry is served while it is younger than the ttl, and
\* not once it is older; at exactly the ttl either may happen
CanServe(entry, l, d, t) ==
    /\ entry # NoEntry
    /\ entry.key = CacheKey(l, d)
    /\ t - entry.at <= Ttl(l)

\* faulty variant: the result of a failed read is not kept
MustServe_OnlySuccess(entry, l, d, t) ==
    /\ entry # NoEntry
    /\ entry.key = CacheKey(l, d)
    /\ t - entry.at < Ttl(l)
    /\ entry.value.ok

MustServe(entry, l, d, t) ==
    /\ entry # NoEntry
    /\ entry.key = CacheKey(l, d)
    /\ t - entry.at < Ttl(l)

\* the history of the calls: whether the body ran, what was returned, what
\* the file held, when, and the file's modification time at this call and at
\* the read before it
CallRecord(read, value, prev) ==
    [kind |-> "call", read |-> read, value |-> value, at |-> now,
     fresh |-> LoaderBody(loader, disk),
     readAt |-> IF read THEN now ELSE prev.readAt,
     mtime |-> IF disk.exists THEN disk.mtime ELSE NoStamp,
     prevReadAt |-> IF prev = NoCall THEN NoStamp ELSE prev.readAt,
     prevReadMtime |-> IF prev = NoCall THEN NoStamp ELSE prev.readMtime,
     readMtime |-> IF read THEN (IF disk.exists THEN disk.mtime ELSE NoStamp)
                   ELSE prev.readMtime]

\* a call of the loader that st.cache_data answers from its entry
CallServed ==
    /\ loader \in Loaders
    /\ CanServe(cache, loader, disk, now)
    /\ lastCall' = CallRecord(FALSE, cache.value, lastCall)
    /\ UNCHANGED <<loader, now, disk, cache>>
    /\ UNCHANGED otherThanDash

\* a call of the loader that runs its body
CallRead ==
    /\ loader \in Loaders
    /\ ~MustServe(cache, loader, disk, now)
    /\ cache' = [kind |-> "entry", key |-> CacheKey(loader, disk), at |-> now,
                 value |-> LoaderBody(loader, disk)]
    /\ lastCall' = CallRecord(TRUE, LoaderBody(loader, disk), lastCall)
    /\ UNCHANGED <<loader, now, disk>>
    /\ UNCHANGED otherThanDash

\* time passes
Tick ==
    /\ loader \in Loaders
    /\ now + TickSeconds <= MaxClock
    /\ now' = now + TickSeconds
    /\ UNCHANGED <<loader, disk, cache, lastCall>>
    /\ UNCHANGED otherThanDash

\* a pipeline run rewrites the processed file: new content, new modification time
RewriteFile ==
    /\ loader \in Loaders
    /\ disk.version < MaxVersion
    /\ ~disk.exists \/ disk.mtime < now
    /\ disk' = [exists |-> TRUE, parses |-> TRUE, mtime |-> now,
                version |-> disk.version + 1,
                content |-> [document |-> disk.version + 1]]
    /\ UNCHANGED <<loader, now, cache, lastCall>>
    /\ UNCHANGED otherThanDash

InitDashboard ==
    /\ loader \in Loaders
    /\ now = 0
    /\ disk \in {[exists |-> FALSE, parses |-> FALSE, mtime |-> 0, version |-> 0,
                  content |-> EmptyObject],
                 [exists |-> TRUE, parses |-> FALSE, mtime |-> 0, version |-> 1,
                  content |-> EmptyObject],
                 [exists |-> TRUE, parses |-> TRUE, mtime |-> 0, version |-> 1,
                  content |-> EmptyObject],
                 [exists |-> TRUE, parses |-> TRUE, mtime |-> 0, version |-> 1,
                  content |-> [document |-> 1]]}
    /\ cache = NoEntry
    /\ lastCall = NoCall

-----------------------------------------------------------------------------
(* generate_json_data.py: process_native_layout_experiments *)

\* backend_files: display name -> folder, file, delta_val (in hundredths), qubits
backend_files ==
    ("ibm_brisbane" :> [folder |-> "ibm_brisbane", filename |-> "127_HE_day2", delta_val |-> 100, qubits |-> 127]) @@
    ("ibm_torino-v0" :> [folder |-> "ibm_torino", filename |-> "133_HE", delta_val |-> 100, qubits |-> 133]) @@
    ("ibm_torino-v1" :> [folder |-> "ibm_torino", filename |-> "133_HE_v1", delta_val |-> 100, qubits |-> 133]) @@
    ("ibm_torino-f" :> [folder |-> "ibm_torino", filename |-> "133_HE_fractional", delta_val |-> 75, qubits |-> 133]) @@
    ("ibm_fez" :> [folder |-> "ibm_fez", filename |-> "156_HE", delta_val |-> 100, qubits |-> 156]) @@
    ("ibm_fez-f" :> [folder |-> "ibm_fez", filename |-> "156_HE_fractional", delta_val |-> 75, qubits |-> 156]) @@
    ("ibm_marrakesh-f" :> [folder |-> "ibm_marrakesh", filename |-> "156_HE_fractional", delta_val |-> 75, qubits |-> 156]) @@
    ("ibm_aachen-f" :> [folder |-> "ibm_aachen", filename |-> "156_HE_fractional", delta_val |-> 75, qubits |-> 156]) @@
    ("ibm_kingston-f" :> [folder |-> "ibm_kingston", filename |-> "156_HE_fractional", delta_val |-> 75, qubits |-> 156]) @@
    ("ibm_boston-f" :> [folder |-> "ibm_boston", filename |-> "156_HEw1", delta_val |-> 75, qubits |-> 156]) @@
    ("iqm_garnet" :> [folder |-> "iqm_garnet", filename |-> "20_NL", delta_val |-> 100, qubits |-> 20]) @@
    ("iqm_emerald" :> [folder |-> "iqm_emerald", filename |-> "54_HE", delta_val |-> 75, qubits |-> 54]) @@
    ("rigetti_ankaa_3" :> [folder |-> "rigetti_ankaa_3", filename |-> "82_NL", delta_val |-> 100, qubits |-> 82])

\* postprocessing[delta][p] keyed by the section index: {0: {"r": ..}, ..}
Indexed(secs) == [shape |-> "indexed", secs |-> secs]
\* postprocessing[delta][p] keyed by the property: {"r": ..}
Direct(r) == [shape |-> "direct", r |-> r]
\* postprocessing[delta][p] is not a dict, and is subscripted by the property
NotDict(r) == [shape |-> "other", r |-> r]

\* np.load(data_dir / folder / filename)
LoadNL(raw, display_name) ==
    LET f == backend_files[display_name]
    IN  IF <<f.folder, f.filename>> \in DOMAIN raw
        THEN raw[<<f.folder, f.filename>>] ELSE Missing

\* line 330-331: isinstance(.., dict) and 0 in it, at ps[0]
ReadsSectionZero(rec) == rec.post[1].shape = "indexed"

\* faulty variant: only the shape keyed by the section index is handled
RaisesNL_IndexedOnly(rec, delta_val) ==
    \/ rec.kind = "missing"
    \/ rec.delta # delta_val
    \/ Len(rec.ps) = 0
    \/ \E j \in 1..Len(rec.ps) : rec.post[j].shape # "indexed"

\* what makes lines 325-336 raise: no file, no such delta, no depth, or a
\* depth whose shape is not the shape found at ps[0]
RaisesNL(rec, delta_val) ==
    \/ rec.kind = "missing"
    \/ rec.delta # delta_val
    \/ Len(rec.ps) = 0
    \/ \E j \in 1..Len(rec.ps) :
          IF ReadsSectionZero(rec) THEN rec.post[j].shape # "indexed"
          ELSE rec.post[j].shape = "indexed"

\* lines 330-336: rs
NLRatios(rec) ==
    [j \in 1..Len(rec.ps) |->
        IF ReadsSectionZero(rec) THEN rec.post[j].secs[1] ELSE rec.post[j].r]

\* lines 338-348: the entry; float(results["random"][prop]) raises when the
\* block has no such key, after the entry is stored without random_r
NLEntry(rec, qubits) ==
    LET rs == NLRatios(rec)
        entry == [qubits |-> qubits,
                  p_values |-> rec.ps,
                  r_values |-> rs,
                  max_r |-> MaxSeq(rs),
                  optimal_p |-> rec.ps[ArgMax(rs)],
                  has_random |-> rec.random.kind # "none"]
    IN  IF rec.random.kind = "prop"
        THEN [qubits |-> entry.qubits,
              p_values |-> entry.p_values,
              r_values |-> entry.r_values,
              max_r |-> entry.max_r,
              optimal_p |-> entry.optimal_p,
              has_random |-> entry.has_random,
              random_r |-> rec.random.r]
        ELSE entry

\* nl_results when process_native_layout_experiments returns
NLResults(raw) ==
    LET stored == {d \in DOMAIN backend_files :
                      ~RaisesNL(LoadNL(raw, d), backend_files[d].delta_val)}
    IN  [d \in stored |-> NLEntry(LoadNL(raw, d), backend_files[d].qubits)]

\* one run of process_native_layout_experiments
process_native_layout_experiments ==
    /\ nlFile' = NLResults(rawNL)
    /\ UNCHANGED rawNL
    /\ UNCHANGED otherThanNL

(* The raw native-layout records the model draws from *)

NLRecord(delta, ps, post, random) ==
    [kind |-> "record", delta |-> delta, ps |-> ps, post |-> post, random |-> random]

\* the records a file may hold: the same ratios in the three shapes; two
\* sections under each depth; the first depth keyed by the section and the
\* second by the property; a random block without the property; a record
\* taken under delta 0.75
NLRecords ==
    {Missing,
     NLRecord(100, <<3, 5, 7>>,
              <<Indexed(<<4000>>), Indexed(<<7000>>), Indexed(<<7000>>)>>, NoRandom),
     NLRecord(100, <<3, 5, 7>>, <<Direct(4000), Direct(7000), Direct(7000)>>, NoRandom),
     NLRecord(100, <<3, 5, 7>>, <<NotDict(4000), NotDict(7000), NotDict(7000)>>, NoRandom),
     NLRecord(100, <<3, 5>>, <<Indexed(<<6000, 9000>>), Indexed(<<5000, 9500>>)>>,
              RandomProp(5000)),
     NLRecord(100, <<3, 5>>, <<Indexed(<<6000>>), Direct(5000)>>, NoRandom),
     NLRecord(100, <<3, 5>>, <<Direct(6000), Direct(5000)>>, RandomRows(<<<<5000, 2>>>>)),
     NLRecord(75, <<3, 5>>, <<Direct(3000), Direct(8000)>>, RandomProp(4000))}

\* the display names whose files the model fills
ModelNL == {"ibm_brisbane", "iqm_garnet", "ibm_fez-f"}

InitNLStore ==
    /\ \E a \in NLRecords, b \in NLRecords, c \in NLRecords :
          rawNL = (<<"ibm_brisbane", "127_HE_day2">> :> a) @@
                  (<<"iqm_garnet", "20_NL">> :> b) @@
                  (<<"ibm_fez", "156_HE_fractional">> :> c)
    /\ nlFile = NoFile

-----------------------------------------------------------------------------
(* utils.py: wmaxcut_docplex *)

\* A graph is [nodes, edges]: the vertex labels in the order G.nodes hands them
\* out, and the edges <<i, j, weight>> in the order and the orientation G.edges
\* hands them out.  Labels and weights are integers: labels sort, sums are exact.

NoModel == [kind |-> "none"]

\* faulty variant: the index is the place of the label in G.nodes
translate_Unsorted(g, label) ==
    (CHOOSE k \in 1..Len(g.nodes) : g.nodes[k] = label) - 1

\* translate = {j: i for i, j in enumerate(sorted(G.nodes))}
translate(g, label) == Cardinality({m \in Range(g.nodes) : m < label})

\* the index pairs an expression may hold a product x_a * x_b for
VarPairs(n) == {pr \in (0..(n - 1)) \X (0..(n - 1)) : pr[1] <= pr[2]}

Pair(a, b) == IF a <= b THEN <<a, b>> ELSE <<b, a>>

\* faulty variant: one side of the indicator only, w * x_a * (1 - x_b)
EdgeTerm_OneSided(n, a, b, w) ==
    [lin |-> [k \in 0..(n - 1) |-> IF k = a THEN w ELSE 0],
     quad |-> [pr \in VarPairs(n) |-> IF pr = Pair(a, b) THEN -w ELSE 0]]

\* w * (x_a * (1 - x_b) + x_b * (1 - x_a)), expanded: the coefficients of the
\* variables and of their products
EdgeTerm(n, a, b, w) ==
    [lin |-> [k \in 0..(n - 1) |->
                 (IF k = a THEN w ELSE 0) + (IF k = b THEN w ELSE 0)],
     quad |-> [pr \in VarPairs(n) |-> IF pr = Pair(a, b) THEN -2 * w ELSE 0]]

\* mdl.sum(... for (i, j) in G.edges), from the e-th edge on
RECURSIVE SumEdges(_, _, _)
SumEdges(g, n, e) ==
    IF e > Len(g.edges)
    THEN [lin |-> [k \in 0..(n - 1) |-> 0], quad |-> [pr \in VarPairs(n) |-> 0]]
    ELSE LET edge == g.edges[e]
             t == EdgeTerm(n, translate(g, edge[1]), translate(g, edge[2]), edge[3])
             rest == SumEdges(g, n, e + 1)
         IN  [lin |-> [k \in 0..(n - 1) |-> t.lin[k] + rest.lin[k]],
              quad |-> [pr \in VarPairs(n) |-> t.quad[pr] + rest.quad[pr]]]

\* the model returned: num_vertices binary variables x_0 .. x_{n-1}, and the
\* objective minimize(-sum)
BuildModel(g) ==
    LET n == Len(g.nodes)
        s == SumEdges(g, n, 1)
    IN  [kind |-> "model",
         name |-> "MaxCut",
         x |-> [k \in 0..(n - 1) |-> "x_" \o Str(k)],
         sense |-> "min",
         lin |-> [k \in 0..(n - 1) |-> -s.lin[k]],
         quad |-> [pr \in VarPairs(n) |-> -s.quad[pr]]]

RECURSIVE SumOver(_, _)
SumOver(f, S) ==
    IF S = {} THEN 0
    ELSE LET k == CHOOSE k \in S : TRUE IN f[k] + SumOver(f, S \ {k})

\* the objective of the model at the values val[k] of its variables x_k
Objective(m, val) ==
    SumOver([k \in DOMAIN m.lin |-> m.lin[k] * val[k]], DOMAIN m.lin)
    + SumOver([pr \in DOMAIN m.quad |-> m.quad[pr] * val[pr[1]] * val[pr[2]]],
              DOMAIN m.quad)

wmaxcut_docplex ==
    /\ G # NoModel
    /\ mdl' = BuildModel(G)
    /\ UNCHANGED G
    /\ UNCHANGED otherThanCut

(* The graphs the model draws from *)

VertexLabels == {2, 5, 9}
Weights == {-2, 3}
MaxEdges == 2

\* the orders in which the vertices of a set may have been added
NodeOrders ==
    UNION {{s \in [1..n -> VertexLabels] :
               \A i \in 1..n, j \in 1..n : i # j => s[i] # s[j]} :
           n \in 0..Cardinality(VertexLabels)}

\* the edges of a simple undirected graph, self-loops allowed, each met once
EdgeLists(nodes) ==
    UNION {{s \in [1..n -> Range(nodes) \X Range(nodes) \X Weights] :
               \A i \in 1..n, j \in 1..n :
                   i # j => {s[i][1], s[i][2]} # {s[j][1], s[j][2]}} :
           n \in 0..MaxEdges}

InitGraph ==
    /\ \E nodes \in NodeOrders :
          \E edges \in EdgeLists(nodes) : G = [nodes |-> nodes, edges |-> edges]
    /\ mdl = NoModel

-----------------------------------------------------------------------------
(* dashboard/dashboard.py: compute_dataset_insights *)

\* get_base_name and get_vendor on the names of the model: ibm_fez, ibm_fez-f,
\* iqm_garnet, originq_wukong, qasm_simulator

get_base_name(name) == IF name = "ibm_fez-f" THEN "ibm_fez" ELSE name

get_vendor(name) ==
    CASE name \in {"ibm_fez", "ibm_fez-f"} -> "IBM"
      [] name = "iqm_garnet" -> "IQM"
      [] name = "originq_wukong" -> "OriginQ"
      [] OTHER -> "Other"

\* the names the three loops count: fc_data skips "qasm_simulator", the other
\* two skip every name holding "simulator"; of 1d_chain_processed.json only
\* the names of the groups "5q" and "100q" are read
CountedNames(a) ==
    (IF a.fc = NoFile THEN {} ELSE DOMAIN a.fc \ {"qasm_simulator"})
    \cup (IF a.nl = NoFile THEN {} ELSE DOMAIN a.nl \ {"qasm_simulator"})
    \cup (IF a.one_d = NoFile THEN {}
          ELSE UNION {DOMAIN a.one_d[q] \ {"qasm_simulator"} :
                          q \in {"5q", "100q"} \cap DOMAIN a.one_d})

\* the depths max_depth is raised by: the p_values of r_vs_p of the counted
\* entries of fc_data and the p_values of the counted entries of nl_data
CountedDepths(a) ==
    (IF a.fc = NoFile THEN {}
     ELSE UNION {UNION {Range(a.fc[b][n].r_vs_p.p_values) : n \in DOMAIN a.fc[b]} :
                     b \in DOMAIN a.fc \ {"qasm_simulator"}})
    \cup (IF a.nl = NoFile THEN {}
          ELSE UNION {Range(a.nl[b].p_values) : b \in DOMAIN a.nl \ {"qasm_simulator"}})

\* _get_stats: nothing when no processor was counted; max_depth starts at 0
_get_stats(a) ==
    IF CountedNames(a) = {} THEN None
    ELSE [kind |-> "stats",
          qpus |-> Cardinality({get_base_name(b) : b \in CountedNames(a)}),
          vendors |-> Cardinality({get_vendor(b) : b \in CountedNames(a)}),
          vendor_list |-> {get_vendor(b) : b \in CountedNames(a)},
          max_depth |-> CHOOSE d \in CountedDepths(a) \cup {0} :
                            \A other \in CountedDepths(a) : other <= d]

\* a call of compute_dataset_insights; the files do not change here, so the
\* memoized result is the computed one
compute_dataset_insights ==
    /\ artifacts # NoFile
    /\ insights' = _get_stats(artifacts)
    /\ UNCHANGED <<artifacts, fcLoad>>
    /\ UNCHANGED otherThanIns

\* int(nq_str)
IntOf(nq_str) == CHOOSE n \in 0..200 : Str(n) = nq_str

\* lines 82-95: the loop over the sixteen backends (the list of lines 62-67 is
\* the one of process_fc_experiments), from the backends `bs` on; r is the
\* defaultdict so far.  The entries of a backend are gone through in the order
\* of their nq, as the pipeline writes them; data["statistics"] raises on an
\* entry without the key, and what r holds by then stays in it.
RECURSIVE ScanFC(_, _, _)
ScanFC(fc_data, bs, r) ==
    IF bs = << >> THEN [r |-> r, raised |-> FALSE]
    ELSE IF Head(bs) \notin DOMAIN fc_data THEN ScanFC(fc_data, Tail(bs), r)
    ELSE LET entries == fc_data[Head(bs)]
             bad == {IntOf(k) : k \in {j \in DOMAIN entries :
                                          "statistics" \notin DOMAIN entries[j]}}
             seen == {n \in {IntOf(k) : k \in DOMAIN entries} : \A m \in bad : n < m}
             kept == {n \in seen : entries[Str(n)].statistics.significant}
             next == IF kept = {} THEN r
                     ELSE Put(r, Head(bs), [n \in kept |-> entries[Str(n)].r_eff])
         IN  IF bad # {} THEN [r |-> next, raised |-> TRUE]
             ELSE ScanFC(fc_data, Tail(bs), next)

\* lines 59-106: r, debug_info and fc_data as returned (backends is the list)
LoadFCResults(file) ==
    IF file = NoFile
    THEN [r |-> EmptyObject, debug_info |-> "ERR JSON file not found",
          fc_data |-> EmptyObject]
    ELSE LET scan == ScanFC(file, backends, EmptyObject)
         IN  IF scan.raised
             THEN [r |-> scan.r, debug_info |-> "ERR Error loading JSON",
                   fc_data |-> EmptyObject]
             ELSE [r |-> scan.r, debug_info |-> "OK Loaded JSON data", fc_data |-> file]

\* a call of load_fc_results; the file does not change here, so the memoized
\* result is the computed one
load_fc_results ==
    /\ artifacts # NoFile
    /\ fcLoad' = LoadFCResults(artifacts.fc)
    /\ UNCHANGED <<artifacts, insights>>
    /\ UNCHANGED otherThanIns

\* the processed files of the model
InitArtifacts ==
    LET DepthEntry(ps) == [p_values |-> ps]
        FCItem(ps, significant, r_eff) ==
            [r_vs_p |-> DepthEntry(ps), r_eff |-> r_eff,
             statistics |-> [significant |-> significant,
                             p_value |-> IF significant THEN 0 ELSE 5000]]
        FCDocuments ==
            {NoFile, EmptyObject,
             "ibm_fez" :> ("10" :> FCItem(<<3, 5>>, TRUE, 4000)),
             ("ibm_fez" :> ("10" :> FCItem(<<3, 5>>, TRUE, 4000)))
                @@ ("qasm_simulator" :> ("10" :> FCItem(<<3, 50>>, TRUE, 9000))),
             "iqm_garnet" :> ("5" :> FCItem(<< >>, FALSE, 100)),
             ("ibm_fez" :> (("5" :> FCItem(<<3>>, TRUE, 6000))
                                @@ ("10" :> FCItem(<<3, 5>>, FALSE, 200))))
                @@ ("originq_wukong" :> ("5" :> FCItem(<<3>>, TRUE, 3000))),
             ("ibm_fez" :> ("10" :> FCItem(<<3, 5>>, TRUE, 4000)))
                @@ ("iqm_garnet" :> ("5" :> [r_vs_p |-> DepthEntry(<<3>>), r_eff |-> 5000]))}
        NLDocuments ==
            {NoFile, EmptyObject,
             "ibm_fez-f" :> DepthEntry(<<3, 10>>),
             ("ibm_fez" :> DepthEntry(<<3, 7>>)) @@ ("ibm_fez-f" :> DepthEntry(<<4>>))}
        ChainDocuments ==
            {NoFile,
             ("5q" :> EmptyObject) @@ ("100q" :> EmptyObject),
             ("5q" :> ("originq_wukong" :> DepthEntry(<<3, 25>>))) @@ ("100q" :> EmptyObject),
             ("5q" :> ("qasm_simulator" :> DepthEntry(<<3, 25>>)))
                @@ ("100q" :> ("ibm_fez" :> DepthEntry(<<3, 100>>))),
             ("5q" :> ("iqm_garnet" :> DepthEntry(<<3, 4>>))) @@ ("100q" :> EmptyObject)
                @@ ("originq_wukong" :> DepthEntry(<<3, 25>>))}
    IN  /\ artifacts \in [fc : FCDocuments, nl : NLDocuments, one_d : ChainDocuments]
        /\ insights = NoFile
        /\ fcLoad = NoFile

-----------------------------------------------------------------------------
(* The programs share no state but the files.  Each specification runs one  *)
(* of them; the variables of the others stay as they start.                  *)

\* the variables of the programs `others`, as they start and stay
Idle(others) ==
    /\ IF "fc" \in others
       THEN rawFC = EmptyObject /\ rawHPC = << >> /\ fcFile = NoFile /\ fcSummary = NoFile
       ELSE TRUE
    /\ IF "chain" \in others
       THEN /\ raw1D = EmptyObject /\ raw5q = EmptyObject /\ chainFile = NoFile
            /\ lastOp = "none" /\ patchExit = "none" /\ patchStreak = 0
       ELSE TRUE
    /\ IF "dash" \in others
       THEN /\ loader = "none" /\ now = 0 /\ disk = NoFile
            /\ cache = NoEntry /\ lastCall = NoCall
       ELSE TRUE
    /\ IF "nl" \in others THEN rawNL = EmptyObject /\ nlFile = NoFile ELSE TRUE
    /\ IF "cut" \in others THEN G = NoModel /\ mdl = NoModel ELSE TRUE
    /\ IF "ins" \in others
       THEN artifacts = NoFile /\ insights = NoFile /\ fcLoad = NoFile
       ELSE TRUE
    /\ IF "race" \in others THEN patchRun = NoRun ELSE TRUE

InitFC == InitFCStore /\ Idle({"chain", "dash", "nl", "cut", "ins", "race"})
NextFC == process_fc_experiments
SpecFC == InitFC /\ [][NextFC]_vars

InitChain == InitChainStore /\ Idle({"fc", "dash", "nl", "cut", "ins", "race"})
NextChain ==
    \/ process_1d_chain_experiments
    \/ generate_1d_chain_json
    \/ add_originq_to_1d
SpecChain == InitChain /\ [][NextChain]_vars

InitDash == InitDashboard /\ Idle({"fc", "chain", "nl", "cut", "ins", "race"})
NextDash == CallServed \/ CallRead \/ Tick \/ RewriteFile
SpecDash == InitDash /\ [][NextDash]_vars

InitNL == InitNLStore /\ Idle({"fc", "chain", "dash", "cut", "ins", "race"})
NextNL == process_native_layout_experiments
SpecNL == InitNL /\ [][NextNL]_vars

InitCut == InitGraph /\ Idle({"fc", "chain", "dash", "nl", "ins", "race"})
NextCut == wmaxcut_docplex
SpecCut == InitCut /\ [][NextCut]_vars

InitIns == InitArtifacts /\ Idle({"fc", "chain", "dash", "nl", "cut", "race"})
NextIns == compute_dataset_insights \/ load_fc_results
SpecIns == InitIns /\ [][NextIns]_vars

\* the patch utility run beside the two generators, its read and its write
\* separate steps
InitRace == InitChainStore /\ patchRun = NoRun /\ Idle({"fc", "dash", "nl", "cut", "ins"})
NextRace ==
    \/ process_1d_chain_experiments
    \/ generate_1d_chain_json
    \/ patch_read
    \/ patch_write
SpecRace == InitRace /\ [][NextRace]_vars


-----------------------------------------------------------------------------
(* Fully-connected pipeline: what fc_processed.json holds *)

StoredFC(b, nq) == fcFile # NoFile /\ Str(nq) \in DOMAIN fcFile[b]

EntryFC(b, nq) == fcFile[b][Str(nq)]

RMaxOf(rec) == MaxSeq(MaxPerDepth(rec))

\* r_max at least ten bootstrap standard deviations above the bootstrap mean
TenSigmaAbove(rec) ==
    /\ RandomBaseline(rec).std > 0
    /\ RMaxOf(rec) - RandomBaseline(rec).mean >= 10 * RandomBaseline(rec).std

\* r_max equal to the bootstrap mean, the resamples not all alike
AtBootstrapMean(rec) ==
    /\ RandomBaseline(rec).std > 0
    /\ RMaxOf(rec) = RandomBaseline(rec).mean

AllEntriesFC ==
    IF fcFile = NoFile THEN {}
    ELSE UNION {{fcFile[b][k] : k \in DOMAIN fcFile[b]} : b \in DOMAIN fcFile}

\* p_value is a number smaller than 0.001
SmallP(e) == IsNum(e.statistics.p_value) /\ e.statistics.p_value.v < 1000

\* C2, as stated: in every entry of fc_processed.json, the HPC-simulation
\* entries included, significant is true iff p_value is a number below 0.001.
C2_SignificantIffSmallP ==
    \A e \in AllEntriesFC : e.statistics.significant <=> SmallP(e)

\* C2, amended: in every entry derived from a raw record, significant is true
\* iff p_value is a number below 0.001; an HPC-simulation entry has p_value
\* null and significant true.
C2_SignificantByOrigin ==
    \A e \in AllEntriesFC :
        IF "source" \in DOMAIN e
        THEN e.statistics.p_value = None /\ e.statistics.significant
        ELSE e.statistics.significant <=> SmallP(e)

C2_Witness ==
    /\ \E e \in AllEntriesFC : "source" \in DOMAIN e
    /\ \E e \in AllEntriesFC :
          /\ "source" \notin DOMAIN e
          /\ IsNum(e.statistics.p_value)
          /\ e.statistics.p_value.v >= 1000
          /\ e.statistics.p_value.v < 10000
          /\ ~e.statistics.significant

\* the section whose largest ratio over the depths is largest (the first of them)
SectionOfLargestMax(rec) ==
    CHOOSE i \in 1..rec.sections :
        /\ \A j \in 1..rec.sections : MaxSeq(rec.post[i]) >= MaxSeq(rec.post[j])
        /\ \A j \in 1..(i - 1) : MaxSeq(rec.post[j]) < MaxSeq(rec.post[i])

\* C10, as stated: for every raw record that loads with at least one section,
\* r_vs_p.r_values is the ratio sequence of the section whose largest ratio is
\* largest, one value for each element of r_vs_p.p_values.
C10_BestSectionCurve ==
    fcFile # NoFile =>
        \A pair \in ModelPairs :
            LET rec == rawFC[pair]
            IN  ~RaisesFC(rec) =>
                    /\ StoredFC(pair[1], pair[2])
                    /\ EntryFC(pair[1], pair[2]).r_vs_p.r_values
                           = rec.post[SectionOfLargestMax(rec)]
                    /\ Len(EntryFC(pair[1], pair[2]).r_vs_p.r_values)
                           = Len(EntryFC(pair[1], pair[2]).r_vs_p.p_values)

-----------------------------------------------------------------------------
(* Dashboard: the memoized loaders *)

\* the time-to-live the loaders are documented with
StatedTtl(l) == IF l = "load_fc_results" THEN 3600 ELSE 600

\* the file's modification time as a call made now would find it
StampNow == IF disk.exists THEN disk.mtime ELSE NoStamp

\* C3: a call made less than the loader's time-to-live (600 s, 3600 s for the
\* fully-connected loader) after the last read of the file, the file not
\* modified since, does not read it; the first call ever, and a call made more
\* than the time-to-live after the last read, reads it.
C3_ReadOncePerWindow ==
    [][lastCall' # lastCall =>
          IF lastCall = NoCall THEN lastCall'.read
          ELSE /\ (/\ now - lastCall.readAt < StatedTtl(loader)
                   /\ StampNow = lastCall.readMtime) => ~lastCall'.read
               /\ now - lastCall.readAt > StatedTtl(loader) => lastCall'.read]_vars

C3_Witness ==
    /\ lastCall # NoCall
    /\ ~lastCall.read
    /\ lastCall.at > lastCall.readAt
    /\ lastCall.mtime = lastCall.readMtime

\* C4, as stated: a call made when the file's modification time is no longer
\* the one the cached result was read under reads the file again and returns
\* its new content.
C4_RereadAfterModification ==
    (/\ lastCall # NoCall
     /\ lastCall.prevReadMtime # NoStamp
     /\ lastCall.mtime # NoStamp
     /\ lastCall.mtime # lastCall.prevReadMtime)
        => lastCall.read /\ lastCall.value = lastCall.fresh

-----------------------------------------------------------------------------
(* 1d_chain_processed.json: the patch utility and the generators *)

OriginqRecord == LoadChain(raw5q, "originq_wukong", "5_1D_2")

PatchRanOk == lastOp = "patch" /\ patchExit = "ok"

\* C5: a successful run of the patch utility changes 1d_chain_processed.json
\* at the key originq_wukong only: every other key keeps its value, none is
\* added or removed.
C5_PatchFrame ==
    [][(lastOp' = "patch" /\ patchExit' = "ok") =>
          /\ chainFile # NoFile
          /\ DOMAIN chainFile' = DOMAIN chainFile \cup {"originq_wukong"}
          /\ \A k \in DOMAIN chainFile \ {"originq_wukong"} :
                 chainFile'[k] = chainFile[k]]_vars

C5_Witness ==
    /\ PatchRanOk
    /\ "originq_wukong" \in DOMAIN chainFile
    /\ DOMAIN chainFile # {"originq_wukong"}

\* C6, as stated: a second successful run right after a first leaves the file
\* as the first run left it, random_r included.
C6_SecondRunIdentical ==
    [][(PatchRanOk /\ lastOp' = "patch" /\ patchExit' = "ok") =>
          chainFile' = chainFile]_vars

\* two entries alike in every field but random_r
SameButRandomR(e1, e2) ==
    /\ DOMAIN e1 = DOMAIN e2
    /\ \A f \in DOMAIN e1 \ {"random_r"} : e1[f] = e2[f]

\* C6, amended: a second successful run right after a first leaves every other
\* key as it was and every field of the originq_wukong entry but random_r;
\* random_r comes from an unseeded bootstrap and may differ when the raw record
\* carries a random block; without one the file is identical.
C6_SecondRunSameButRandomR ==
    [][(PatchRanOk /\ lastOp' = "patch" /\ patchExit' = "ok") =>
          /\ DOMAIN chainFile' = DOMAIN chainFile
          /\ \A k \in DOMAIN chainFile \ {"originq_wukong"} :
                 chainFile'[k] = chainFile[k]
          /\ SameButRandomR(chainFile'["originq_wukong"], chainFile["originq_wukong"])
          /\ OriginqRecord.random.kind = "none" => chainFile' = chainFile]_vars

C6_Witness ==
    /\ PatchRanOk
    /\ patchStreak = 2
    /\ "random_r" \in DOMAIN chainFile["originq_wukong"]

\* the raw record cannot be loaded, or lacks a key or a nesting the script reads
UnreadableRecord(rec) ==
    \/ rec.kind = "missing"
    \/ Len(rec.ps) = 0
    \/ rec.random.kind = "prop"

TorinoBase == LoadChain(raw1D, "ibm_torino", "100_1D")
TorinoV1 == LoadChain(raw1D, "ibm_torino", "100_1D_v1")

\* the entry under `key` holds the depths and ratios of `rec`
HoldsDataOf(key, rec) ==
    /\ key \in DOMAIN chainFile
    /\ chainFile[key].p_values = rec.ps
    /\ chainFile[key].r_values = rec.rs

\* C8, as stated: whenever the v1 file of ibm_torino exists, the output of
\* process_1d_chain_experiments has ibm_torino-v0 with the base file's data,
\* ibm_torino-v1 with the v1 file's data, and no ibm_torino key.
C8_VariantsWheneverV1Exists ==
    (lastOp = "pipeline" /\ TorinoV1 # Missing) =>
        /\ HoldsDataOf("ibm_torino-v0", TorinoBase)
        /\ HoldsDataOf("ibm_torino-v1", TorinoV1)
        /\ "ibm_torino" \notin DOMAIN chainFile

\* C8, amended: the output of process_1d_chain_experiments never has an
\* ibm_torino key; whenever the base file and the v1 file of ibm_torino both
\* load, it has ibm_torino-v0 with the base file's data and ibm_torino-v1 with
\* the v1 file's data.
C8_VariantsWhenBothLoad ==
    lastOp = "pipeline" =>
        /\ "ibm_torino" \notin DOMAIN chainFile
        /\ (~Raises100(TorinoBase) /\ ~Raises100(TorinoV1)) =>
               /\ HoldsDataOf("ibm_torino-v0", TorinoBase)
               /\ HoldsDataOf("ibm_torino-v1", TorinoV1)

C8_Witness ==
    /\ lastOp = "pipeline"
    /\ HoldsDataOf("ibm_torino-v0", TorinoBase)
    /\ HoldsDataOf("ibm_torino-v1", TorinoV1)
    /\ chainFile["ibm_torino-v0"] # chainFile["ibm_torino-v1"]

\* the record holds a section for every depth, and at least one of each
HasSections(rec) ==
    /\ rec.kind = "record"
    /\ Len(rec.ps) > 0
    /\ Len(rec.post) > 0

\* the ratios of the section whose mean over the depths is largest (the first
\* of them)
SectionOfLargestMean(rec) ==
    rec.post[CHOOSE i \in 1..Len(rec.post) :
                 /\ \A j \in 1..Len(rec.post) : Mean(rec.post[i]) >= Mean(rec.post[j])
                 /\ \A j \in 1..(i - 1) : Mean(rec.post[j]) < Mean(rec.post[i])]

\* C9, as stated: for every 5-qubit record with one or more sections,
\* generate_1d_chain_json (to the three decimals it writes) and the patch
\* utility output as r_values the sequence of the section of largest mean.
C9_BestMeanSection ==
    /\ lastOp = "generator" =>
           \A b \in {"qasm_simulator", "originq_wukong"} :
               LET rec == IF b = "originq_wukong" THEN OriginqRecord
                          ELSE Load5q(raw5q, b)
               IN  HasSections(rec) =>
                       /\ b \in DOMAIN chainFile["5q"]
                       /\ chainFile["5q"][b].r_values
                              = RoundAll(SectionOfLargestMean(rec))
    /\ (/\ lastOp = "patch"
        /\ chainFile # NoFile
        /\ HasSections(OriginqRecord)
        /\ OriginqRecord.random.kind # "prop") =>
           /\ patchExit = "ok"
           /\ chainFile["originq_wukong"].r_values
                  = SectionOfLargestMean(OriginqRecord)

-----------------------------------------------------------------------------
(* Fully-connected pipeline: r_max_qpu and p_eff *)

\* the ratios of the record at the first delta: every depth, every section
\* 0..sections-1
AllRatios(rec) ==
    {rec.post[i][j] : i \in 1..rec.sections, j \in 1..Len(rec.ps)}

\* the positions in ps of the depths at which some section has the ratio r
DepthsWith(rec, r) ==
    {j \in 1..Len(rec.ps) : \E i \in 1..rec.sections : rec.post[i][j] = r}

\* C11: r_max_qpu of a stored entry is the largest ratio over all depths and
\* all sections of its record, and p_eff is the earliest depth, in ps order,
\* at which a section has that ratio.
C11_MaxRatioAndDepth ==
    fcFile # NoFile =>
        \A pair \in ModelPairs :
            LET rec == rawFC[pair]
                e == EntryFC(pair[1], pair[2])
            IN  StoredFC(pair[1], pair[2]) =>
                    /\ e.r_max_qpu \in AllRatios(rec)
                    /\ \A r \in AllRatios(rec) : r <= e.r_max_qpu
                    /\ IsNum(e.p_eff)
                    /\ \E j \in DepthsWith(rec, e.r_max_qpu) :
                           /\ e.p_eff.v = rec.ps[j]
                           /\ \A k \in DepthsWith(rec, e.r_max_qpu) : j <= k

\* ps = [1, 2, 3], one section, ratios [0.2, 0.5, 0.8]: 0.8 at depth 3; and a
\* record whose largest ratio is attained at more than one depth
C11_Witness ==
    /\ fcFile # NoFile
    /\ \E pair \in ModelPairs :
          /\ StoredFC(pair[1], pair[2])
          /\ rawFC[pair].ps = <<1, 2, 3>>
          /\ rawFC[pair].post = <<<<2000, 5000, 8000>>>>
          /\ EntryFC(pair[1], pair[2]).r_max_qpu = 8000
          /\ EntryFC(pair[1], pair[2]).p_eff = Num(3)
    /\ \E pair \in ModelPairs :
          /\ StoredFC(pair[1], pair[2])
          /\ Cardinality(DepthsWith(rawFC[pair],
                                    EntryFC(pair[1], pair[2]).r_max_qpu)) > 1

-----------------------------------------------------------------------------
(* Native-layout pipeline: the two shapes of postprocessing[delta][p] *)

\* the record keys every depth by the section index, and holds section 0 only
AllIndexed(rec) ==
    /\ rec.kind = "record"
    /\ Len(rec.ps) > 0
    /\ \A j \in 1..Len(rec.ps) :
           rec.post[j].shape = "indexed" /\ Len(rec.post[j].secs) = 1

\* the record keys every depth by the property
AllDirect(rec) ==
    /\ rec.kind = "record"
    /\ Len(rec.ps) > 0
    /\ \A j \in 1..Len(rec.ps) : rec.post[j].shape = "direct"

\* two records that differ only in the shape: the same delta, depths, random
\* block, and at every depth the same ratio
DifferInShapeOnly(a, b) ==
    /\ AllIndexed(a) /\ AllDirect(b)
    /\ a.delta = b.delta /\ a.ps = b.ps /\ a.random = b.random
    /\ \A j \in 1..Len(a.ps) : a.post[j].secs[1] = b.post[j].r

StoredNL(d) == nlFile # NoFile /\ d \in DOMAIN nlFile

\* C12: two native-layout records that differ only in the shape of
\* postprocessing[delta][p] (keyed by section index 0, or by the property r)
\* and are read under the same delta are both stored or both skipped, and when
\* stored have the same r_values, max_r and optimal_p.
C12_SameRatiosInBothShapes ==
    nlFile # NoFile =>
        \A d1 \in ModelNL, d2 \in ModelNL :
            (/\ DifferInShapeOnly(LoadNL(rawNL, d1), LoadNL(rawNL, d2))
             /\ backend_files[d1].delta_val = backend_files[d2].delta_val)
                => /\ StoredNL(d1) <=> StoredNL(d2)
                   /\ StoredNL(d1) =>
                          /\ nlFile[d1].r_values = nlFile[d2].r_values
                          /\ nlFile[d1].max_r = nlFile[d2].max_r
                          /\ nlFile[d1].optimal_p = nlFile[d2].optimal_p

C12_Witness ==
    /\ nlFile # NoFile
    /\ \E d1 \in ModelNL, d2 \in ModelNL :
          /\ DifferInShapeOnly(LoadNL(rawNL, d1), LoadNL(rawNL, d2))
          /\ StoredNL(d1) /\ StoredNL(d2)
          /\ nlFile[d1].r_values = <<4000, 7000, 7000>>
          /\ nlFile[d2].r_values = <<4000, 7000, 7000>>
          /\ nlFile[d1].optimal_p = 5

-----------------------------------------------------------------------------
(* wmaxcut_docplex: the objective and the variables *)

Vertices == Range(G.nodes)

\* the vertex whose label has rank k in the ascending sort of the labels
VertexOfRank(k) ==
    CHOOSE v \in Vertices : Cardinality({u \in Vertices : u < v}) = k

\* the weights of the edges whose endpoints get different values, summed
CutWeight(asg) ==
    SumOver([e \in 1..Len(G.edges) |->
                IF asg[G.edges[e][1]] # asg[G.edges[e][2]] THEN G.edges[e][3] ELSE 0],
            1..Len(G.edges))

\* C13: at every 0/1 assignment of the vertices, the objective of the model
\* built from the graph is minus the sum of the weights of the edges whose
\* endpoints differ (x_k taking the value of the vertex of rank k).
C13_ObjectiveIsMinusCut ==
    mdl # NoModel =>
        \A asg \in [Vertices -> {0, 1}] :
            Objective(mdl, [k \in 0..(Len(G.nodes) - 1) |-> asg[VertexOfRank(k)]])
                = -CutWeight(asg)

\* two vertices, one edge of weight w > 0: -w when they differ, 0 when equal
C13_Witness ==
    /\ mdl # NoModel
    /\ Len(G.nodes) = 2
    /\ Len(G.edges) = 1
    /\ G.edges[1][1] # G.edges[1][2]
    /\ G.edges[1][3] > 0
    /\ Objective(mdl, (0 :> 0) @@ (1 :> 1)) = -G.edges[1][3]
    /\ Objective(mdl, (0 :> 1) @@ (1 :> 0)) = -G.edges[1][3]
    /\ Objective(mdl, (0 :> 1) @@ (1 :> 1)) = 0
    /\ Objective(mdl, (0 :> 0) @@ (1 :> 0)) = 0

\* the same sequence in another order
Reorderings(s) ==
    {t \in [1..Len(s) -> Range(s)] :
        \A x \in Range(s) : Cardinality({i \in 1..Len(s) : t[i] = x})
                               = Cardinality({i \in 1..Len(s) : s[i] = x})}

\* the same edges, every one met the other way round
Flipped(edges) == [e \in 1..Len(edges) |-> <<edges[e][2], edges[e][1], edges[e][3]>>]

\* the same sequence, last to first
Reversed(s) == [i \in 1..Len(s) |-> s[Len(s) + 1 - i]]

\* graphs with the vertices, edges and weights of G, added in another order:
\* the vertices in any order, the edges as they are or last to first, met one
\* way round or the other
SameGraphs ==
    {[nodes |-> ns, edges |-> es] :
        ns \in Reorderings(G.nodes),
        es \in {G.edges, Reversed(G.edges),
                Flipped(G.edges), Reversed(Flipped(G.edges))}}

\* the weights of the edges that join u and v, summed
WeightBetween(u, v) ==
    SumOver([e \in 1..Len(G.edges) |->
                IF {G.edges[e][1], G.edges[e][2]} = {u, v} THEN G.edges[e][3] ELSE 0],
            1..Len(G.edges))

\* C14: the model has one binary variable for each vertex, named x_0 .. x_{n-1};
\* x_a and x_b are coupled exactly as the vertices of rank a and b are joined;
\* and a graph with the same vertices, edges and weights added in another
\* order gives the same model.
C14_OneVariablePerSortedVertex ==
    mdl # NoModel =>
        /\ DOMAIN mdl.x = 0..(Cardinality(Vertices) - 1)
        /\ \A k \in DOMAIN mdl.x : mdl.x[k] = "x_" \o Str(k)
        /\ \A pr \in DOMAIN mdl.quad :
               pr[1] # pr[2] =>
                   mdl.quad[pr] = 2 * WeightBetween(VertexOfRank(pr[1]),
                                                    VertexOfRank(pr[2]))
        /\ \A g \in SameGraphs : BuildModel(g) = mdl

\* three vertices added in an order that is not the sorted one, joined by edges
C14_Witness ==
    /\ mdl # NoModel
    /\ Len(G.nodes) = 3
    /\ G.nodes[1] > G.nodes[2]
    /\ Len(G.edges) >= 2
    /\ Cardinality(SameGraphs) > 1
    /\ \E pr \in DOMAIN mdl.quad : pr[1] # pr[2] /\ mdl.quad[pr] # 0

-----------------------------------------------------------------------------
(* Fully-connected pipeline: a pair that fails *)

\* C15: after a run, both files are written; a pair whose record fails to load
\* or to process has no entry; every other pair has the entry computed from
\* its own record, whichever pairs failed.
C15_FailureSkipsOnePair ==
    fcFile # NoFile =>
        /\ fcSummary # NoFile
        /\ \A pair \in ModelPairs :
               IF RaisesFC(rawFC[pair])
               THEN ~StoredFC(pair[1], pair[2])
               ELSE /\ StoredFC(pair[1], pair[2])
                    /\ EntryFC(pair[1], pair[2]) = FCCompute(rawFC[pair])

\* one pair holds a record that cannot be processed, the other is stored
C15_Witness ==
    /\ fcFile # NoFile
    /\ fcSummary # NoFile
    /\ \E failing \in ModelPairs, other \in ModelPairs :
          /\ rawFC[failing] # Missing
          /\ RaisesFC(rawFC[failing])
          /\ ~StoredFC(failing[1], failing[2])
          /\ StoredFC(other[1], other[2])
          /\ fcSummary.total_datapoints >= 1

-----------------------------------------------------------------------------
(* Fully-connected pipeline: bootstrap means without spread *)

\* t_score, p_value and significant as lines 90-92 and 119 compute them for
\* any pair, from the entry's r_max_qpu and baseline
OrdinaryStatistics(e) ==
    LET t == FDiv(e.r_max_qpu - e.random_baseline.mean,
                  e.random_baseline.std_3sigma \div 3, 100)
    IN  [t_score |-> t, p_value |-> PValue(t), significant |-> IsSignificant(PValue(t))]

\* C16, as stated: an entry derived from a record whose bootstrap means have no
\* spread does not carry the statistics of the ordinary computation.
C16_DegenerateSetApart ==
    \A pair \in ModelPairs :
        (/\ StoredFC(pair[1], pair[2])
         /\ EntryFC(pair[1], pair[2]).random_baseline.std_3sigma = 0)
            => EntryFC(pair[1], pair[2]).statistics
                   # OrdinaryStatistics(EntryFC(pair[1], pair[2]))

-----------------------------------------------------------------------------
(* Dashboard: a loader whose file is missing or unreadable *)

\* the empty structure the loader is documented to fall back to
EmptyDefault(l) ==
    IF l = "load_1d_chain_results"
    THEN ("5q" :> EmptyObject) @@ ("100q" :> EmptyObject)
    ELSE EmptyObject

\* C17, as stated: a call whose read of the file fails, the file missing or
\* not parsable, shows a warning or an error on the page and returns the
\* loader's empty default.
C17_FailureShownAndDefault ==
    (/\ lastCall # NoCall
     /\ lastCall.read
     /\ ~lastCall.value.ok)
        => /\ lastCall.value.shown \in {"warning", "error"}
           /\ lastCall.value.data = EmptyDefault(loader)

-----------------------------------------------------------------------------
(* Dashboard: the largest depth of the data set *)

\* every depth in the p_values of the three processed files
DepthsAnywhere(a) ==
    (IF a.fc = NoFile THEN {}
     ELSE UNION {UNION {Range(a.fc[b][n].r_vs_p.p_values) : n \in DOMAIN a.fc[b]} :
                     b \in DOMAIN a.fc})
    \cup (IF a.nl = NoFile THEN {}
          ELSE UNION {Range(a.nl[b].p_values) : b \in DOMAIN a.nl})
    \cup (IF a.one_d = NoFile THEN {}
          ELSE UNION {UNION {Range(a.one_d[q][b].p_values) : b \in DOMAIN a.one_d[q]} :
                          q \in {"5q", "100q"} \cap DOMAIN a.one_d})

\* C18, as stated: the max_depth compute_dataset_insights reports is the
\* largest depth in the p_values of fc_processed.json,
\* native_layout_processed.json and 1d_chain_processed.json.
C18_MaxDepthOverThreeFiles ==
    (insights # NoFile /\ insights # None) =>
        /\ \A d \in DepthsAnywhere(artifacts) : d <= insights.max_depth
        /\ DepthsAnywhere(artifacts) # {} => insights.max_depth \in DepthsAnywhere(artifacts)

-----------------------------------------------------------------------------
(* 1d_chain_processed.json: the patch utility beside a generator *)

PatchEntries == {PatchCompute(OriginqRecord, seed) : seed \in 0..MaxSeed}

\* C19: the write of the patch utility leaves in the file what the utility
\* read, plus the patched entry, whatever was written to the file since the
\* read: a generator's write made in between is lost.
C19_LastWriterWins ==
    [][(patchRun.pc = "read" /\ patchRun'.pc = "done") =>
          /\ DOMAIN chainFile' = DOMAIN patchRun.processed_data \cup {"originq_wukong"}
          /\ \A k \in DOMAIN patchRun.processed_data \ {"originq_wukong"} :
                 chainFile'[k] = patchRun.processed_data[k]
          /\ chainFile'["originq_wukong"] \in PatchEntries]_vars

\* a generator rewrote the file between the read and the write, and the file
\* after the write holds nothing of what the generator wrote
C19_Witness ==
    /\ patchRun.pc = "done"
    /\ lastOp = "patch"
    /\ patchRun.writer \in {"pipeline", "generator"}
    /\ patchRun.replaced # patchRun.processed_data
    /\ \E e \in PatchEntries : chainFile = Put(patchRun.processed_data, "originq_wukong", e)
    /\ \A e \in PatchEntries : chainFile # Put(patchRun.replaced, "originq_wukong", e)

-----------------------------------------------------------------------------
(* 1d_chain_processed.json: the patch utility on the generator's nested file *)

\* chain_results.get("5q", {}) of the dashboard's 5-qubit view
results_5q(chain_results) ==
    IF "5q" \in DOMAIN chain_results THEN chain_results["5q"] ELSE EmptyObject

\* the processors compute_dataset_insights counts in 1d_chain_processed.json
CountedIn1D(file) == CountedNames([fc |-> NoFile, nl |-> NoFile, one_d |-> file])

\* C20: a successful run of the patch utility on a file with the groups "5q"
\* and "100q" puts originq_wukong at the top level beside them and leaves both
\* groups as they were: the 5-qubit view and compute_dataset_insights read
\* what they read before the run.
C20_PatchedEntryBesideGroups ==
    [][(/\ chainFile # NoFile
        /\ {"5q", "100q"} \subseteq DOMAIN chainFile
        /\ lastOp' = "patch" /\ patchExit' = "ok") =>
          /\ DOMAIN chainFile' = DOMAIN chainFile \cup {"originq_wukong"}
          /\ chainFile'["originq_wukong"] \in PatchEntries
          /\ chainFile'["5q"] = chainFile["5q"]
          /\ chainFile'["100q"] = chainFile["100q"]
          /\ results_5q(chainFile') = results_5q(chainFile)
          /\ CountedIn1D(chainFile') = CountedIn1D(chainFile)]_vars

\* the patch ran on a nested file, and no entry of the group "5q" is the
\* patched one
C20_Witness ==
    /\ PatchRanOk
    /\ {"5q", "100q", "originq_wukong"} \subseteq DOMAIN chainFile
    /\ \A b \in DOMAIN chainFile["5q"] : chainFile["5q"][b] # chainFile["originq_wukong"]

-----------------------------------------------------------------------------
(* 1d_chain_processed.json: what the file holds after any runs *)

\* `base`, or `base` with an entry of the patch utility
BaseOrPatched(base) ==
    {base} \cup {Put(base, "originq_wukong", e) : e \in PatchEntries \ {Raise}}

\* C21: a generator run leaves its own output, computed from the raw records
\* alone, whatever the file held; after any runs the file is the last
\* generator's output with the entry of the patch runs made since, and an
\* entry patched in before a run of the full pipeline is gone after it.
C21_GeneratorReplacesFile ==
    /\ lastOp = "pipeline" =>
           chainFile = Chain1DResults(raw1D) /\ "originq_wukong" \notin DOMAIN chainFile
    /\ lastOp = "generator" =>
           chainFile = GeneratorOutput(raw5q, raw1D) /\ DOMAIN chainFile = {"5q", "100q"}
    /\ (lastOp = "patch" /\ chainFile # NoFile) =>
           chainFile \in BaseOrPatched(Chain1DResults(raw1D))
                             \cup BaseOrPatched(GeneratorOutput(raw5q, raw1D))

\* the patch utility has run with success, and the full pipeline after it
C21_Witness ==
    /\ lastOp = "pipeline"
    /\ patchExit = "ok"
    /\ chainFile = Chain1DResults(raw1D)
    /\ "originq_wukong" \notin DOMAIN chainFile

-----------------------------------------------------------------------------
(* Fully-connected pipeline: the random baseline is reproducible *)

\* the pairs whose entry in fc_processed.json comes from their raw record
DerivedPairs == {pair \in ModelPairs : ~RaisesFC(rawFC[pair])}

-----------------------------------------------------------------------------
(* Fully-connected pipeline: the effective ratio *)

\* v is (r_max - t) / (1 - t), to the model's resolution
IsRescaled(v, r_max, t) ==
    /\ v * (Unit - t) <= (r_max - t) * Unit
    /\ (r_max - t) * Unit < (v + 1) * (Unit - t)

\* C23: the r_eff of a stored pair is (r_max - t) / (1 - t) for the threshold
\* t = y1 + y2: 0 when r_max = t, 1 when r_max = 1, and 0.75 for y1 = 0.5,
\* y2 = 0.1, r_max = 0.9.
C23_EffectiveRatio ==
    /\ \A pair \in DerivedPairs :
           StoredFC(pair[1], pair[2]) =>
               LET e == EntryFC(pair[1], pair[2])
                   t == e.random_baseline.mean + e.random_baseline.std_3sigma
               IN  /\ e.random_baseline.threshold = t
                   /\ t < Unit =>
                          /\ IsNum(e.r_eff)
                          /\ IsRescaled(e.r_eff.v, e.r_max_qpu, t)
                          /\ e.r_max_qpu = t => e.r_eff.v = 0
                          /\ e.r_max_qpu = Unit => e.r_eff.v = Unit
    /\ \A t \in {0, Unit \div 10, Unit \div 2, (9 * Unit) \div 10} :
           /\ EffectiveRatio(t, t, 0) = Num(0)
           /\ EffectiveRatio(t, 0, t) = Num(0)
           /\ EffectiveRatio(Unit, t \div 2, t - (t \div 2)) = Num(Unit)
    /\ LET v == EffectiveRatio((9 * Unit) \div 10, Unit \div 2, Unit \div 10).v
       IN  4 * v \in (3 * Unit - Unit \div 500)..(3 * Unit + Unit \div 500)

\* a stored pair whose largest ratio lies between the threshold and 1
C23_Witness ==
    /\ fcFile # NoFile
    /\ \E pair \in DerivedPairs :
          LET e == EntryFC(pair[1], pair[2])
          IN  /\ e.random_baseline.std_3sigma > 0
              /\ e.random_baseline.threshold < e.r_max_qpu
              /\ e.r_max_qpu < Unit
              /\ IsNum(e.r_eff) /\ 0 < e.r_eff.v /\ e.r_eff.v < Unit

-----------------------------------------------------------------------------
(* native_layout_processed.json: has_random and random_r *)

\* C24, as stated: every entry of native_layout_processed.json has has_random
\* true exactly when it has a random_r; a record whose random block does not
\* give the value leaves no entry.
C24_HasRandomIffRandomR ==
    nlFile # NoFile =>
        \A d \in DOMAIN nlFile :
            /\ nlFile[d].has_random <=> "random_r" \in DOMAIN nlFile[d]
            /\ LoadNL(rawNL, d).random.kind \in {"none", "prop"}

-----------------------------------------------------------------------------
(* generate_1d_chain_json: whose ratios a 5-qubit entry holds *)

\* the raw record generate_1d_chain_json loads for the 5-qubit backend b
Record5qOf(b) ==
    IF b = "originq_wukong" THEN LoadChain(raw5q, b, "5_1D_2")
    ELSE IF b = "iqm_sirius" THEN LoadChain(raw5q, b, "5_1D_Single")
    ELSE Load5q(raw5q, b)

\* C25, as stated: the r_values, max_r and optimal_p of every 5-qubit entry
\* generate_1d_chain_json writes are those of one section of the backend's own
\* record.
C25_EntryFromOwnRecord ==
    lastOp = "generator" =>
        \A b \in DOMAIN chainFile["5q"] :
            LET rec == Record5qOf(b)
                e == chainFile["5q"][b]
            IN  /\ rec.kind # "missing"
                /\ e.p_values = rec.ps
                /\ \E i \in 1..Len(rec.post) :
                       /\ e.r_values = RoundAll(rec.post[i])
                       /\ e.max_r = Round3(MaxSeq(rec.post[i]))
                       /\ e.optimal_p = rec.ps[ArgMax(rec.post[i])]

-----------------------------------------------------------------------------
(* Dashboard: the r_eff map and the data load_fc_results returns *)

\* C26, as stated: in what load_fc_results returns, r[backend][nq] is there
\* exactly when fc_data[backend][str(nq)] is, for a listed backend, and is
\* significant, and is then its r_eff; also when the scan failed part-way.
C26_MapAgreesWithData ==
    fcLoad # NoFile =>
        \A b \in Range(backends) \cup DOMAIN fcLoad.r \cup DOMAIN fcLoad.fc_data :
            \A n \in 0..200 :
                LET inMap == b \in DOMAIN fcLoad.r /\ n \in DOMAIN fcLoad.r[b]
                    inData == /\ b \in Range(backends)
                              /\ b \in DOMAIN fcLoad.fc_data
                              /\ Str(n) \in DOMAIN fcLoad.fc_data[b]
                              /\ fcLoad.fc_data[b][Str(n)].statistics.significant
                IN  /\ inMap <=> inData
                    /\ inMap => fcLoad.r[b][n] = fcLoad.fc_data[b][Str(n)].r_eff

-----------------------------------------------------------------------------
(* 1d_chain_processed.json: max_r and optimal_p against r_values *)

\* the per-backend entries of the file, in either shape
ChainEntries(file) ==
    {file[k] : k \in DOMAIN file \ {"5q", "100q", "random_baseline"}}
    \cup UNION {{file[q][b] : b \in DOMAIN file[q]} : q \in {"5q", "100q"} \cap DOMAIN file}

\* the first position where s attains its maximum
FirstMax(s) ==
    CHOOSE i \in 1..Len(s) :
        /\ \A j \in 1..Len(s) : s[j] <= s[i]
        /\ \A j \in 1..(i - 1) : s[j] < s[i]

\* C27, as stated: in every entry written to 1d_chain_processed.json, max_r is
\* the maximum of r_values and optimal_p is the element of p_values at the
\* first position where r_values attains it.
C27_MaxAndDepthOfWrittenRatios ==
    chainFile # NoFile =>
        \A e \in ChainEntries(chainFile) :
            /\ e.max_r = e.r_values[FirstMax(e.r_values)]
            /\ e.optimal_p = e.p_values[FirstMax(e.r_values)]

-----------------------------------------------------------------------------
(* Fully-connected pipeline: the curve, the maximum and its depth *)

\* C28, as stated: in every entry derived from a raw record, p_eff is one of
\* r_vs_p.p_values, and r_vs_p.r_values holds r_max_qpu at the position of
\* p_eff.
C28_CurveThroughMaximum ==
    fcFile # NoFile =>
        \A pair \in DerivedPairs :
            LET e == EntryFC(pair[1], pair[2])
            IN  \E j \in 1..Len(e.r_vs_p.p_values) :
                    /\ e.p_eff = Num(e.r_vs_p.p_values[j])
                    /\ j <= Len(e.r_vs_p.r_values)
                    /\ e.r_vs_p.r_values[j] = e.r_max_qpu

-----------------------------------------------------------------------------
(* Dashboard: the default of a failed read is memoized *)

-----------------------------------------------------------------------------
(* 1d_chain_processed.json: a run of the patch utility that fails *)

\* no section of the record has a mean ratio above 0
NoPositiveSection(rec) ==
    /\ rec.kind # "missing"
    /\ \A i \in 1..Len(rec.post) : Mean(rec.post[i]) <= 0

\* C30: a run of the patch utility that fails before its save (no raw record,
\* a record without a depth or with a random block without rows, no section
\* of positive mean) leaves 1d_chain_processed.json as it was; the file is
\* written by the runs that end well only.
C30_FailedPatchLeavesFile ==
    [][lastOp' = "patch" =>
          /\ patchExit' = "uncaught" => chainFile' = chainFile
          /\ (/\ chainFile # NoFile
              /\ UnreadableRecord(OriginqRecord) \/ NoPositiveSection(OriginqRecord)) =>
                 patchExit' = "uncaught" /\ chainFile' = chainFile
          /\ chainFile' # chainFile => patchExit' = "ok"]_vars

\* the run failed for want of a section of positive mean, on a file that
\* holds entries
C30_Witness ==
    /\ lastOp = "patch"
    /\ patchExit = "uncaught"
    /\ chainFile # NoFile
    /\ chainFile # EmptyObject
    /\ ~UnreadableRecord(OriginqRecord)
    /\ NoPositiveSection(OriginqRecord)

====
